---- MODULE Spec2Model ----
(***************************************************************************)
(* A model of homebridge-coway: the MARVEL air purifier accessory (its     *)
(* optimistic command handlers and its poll refresh), the vendor gateway   *)
(* with its token refresh, the sign-in negotiation and the platform's      *)
(* parallel poll cycle.                                                    *)
(*                                                                         *)
(* Host percentages are floats in the source.  Here a percentage is an     *)
(* integer number of sixths of a percent, so that both 100/6 (one fan      *)
(* step) and 100/3 (one brightness step) are integers.                     *)
(***************************************************************************)
EXTENDS Integers, Sequences, FiniteSets, TLC

VARIABLES
    \* ---- one MARVEL accessory (marvel-air-purifier.ts)
    controlInfo,               \* platformAccessory.context.controlInfo
    indoorAirQuality,          \* platformAccessory.context.indoorAirQuality
    filterInfos,               \* platformAccessory.context.filterInfos
    isConnected,               \* Accessory.isConnected
    characteristicRefreshing,  \* Accessory.characteristicRefreshing
    pollPhase,                 \* "idle" | "inflight": the accessory's endpoint requests
    applied,                   \* the poll responses being pushed to the host, or NoPoll
    airQuality,                \* the indoorAirQuality object registerAirQualityService captured
    last,                      \* the latest intent the host issued, and what it did
    \* ---- the vendor gateway and its shared TokenPair (coway.ts)
    accessToken,               \* the AccessToken object every caller shares
    now,                       \* the clock, in the unit of the token's exp claim
    call,                      \* per caller: where its executeIoCarePayload stands
    issued,                    \* how many token pairs the vendor has issued
    \* ---- sign-in (coway.ts)
    auth,                      \* where authenticate stands, and its next POST
    posted,                    \* the POSTs made, each with the response it got
    \* ---- the platform's poll cycle (CowayPlatform.refreshDevicesParallel)
    endpoints,                 \* per accessory: getEndpoints().length
    cycle,                     \* where the cycle stands
    results,                   \* per request of the queue: its response, once resolved
    arrival,                   \* the requests in the order their responses arrived
    responses,                 \* the responses array, as splice leaves it
    delivered,                 \* per accessory: the chunk its refresh was given
    \* ---- the platform's life (CowayPlatform: launch, enumeration, timer)
    platform,                  \* where the launch handler stands, and what it did
    \* ---- the host's reads
    answer                     \* what the latest GET handler or conversion gave

accVars == <<controlInfo, indoorAirQuality, filterInfos, isConnected,
             characteristicRefreshing, pollPhase, applied, airQuality, last>>

gatewayVars == <<accessToken, now, call, issued>>

signInVars == <<auth, posted>>

pollVars == <<endpoints, cycle, results, arrival, responses, delivered>>

platformVars == <<platform>>

hostVars == <<answer>>

vars == <<accVars, gatewayVars, signInVars, pollVars, platformVars, hostVars>>

-----------------------------------------------------------------------------
(* Enumerations and constants of the accessory                             *)

\* const ROTATION_SPEED_UNIT = 100 / 6.0, in sixths of a percent
ROTATION_SPEED_UNIT == 100

\* const LIGHTBULB_BRIGHTNESS_UNIT = 100 / 3.0, in sixths of a percent
LIGHTBULB_BRIGHTNESS_UNIT == 200

\* Object.values(FanSpeed): the enumeration the handlers index into
FanSpeed == <<"SHUTDOWN", "WEAK", "MEDIUM", "STRONG">>

\* Mode members the handlers use
Mode == {"AUTO_DRIVING", "SILENT", "TURBO", "MY_PET"}

\* A vendor string that is no member of the enumeration it is cast to
Other == "OTHER"

Undefined == [key |-> "undefined", value |-> "undefined"]

Cmd(k, v) == [key |-> k, value |-> v]

PowerOn == Cmd("POWER", "ON")
PowerOff == Cmd("POWER", "OFF")
LightOnCmd == Cmd("LIGHT", "ON")
LightOffCmd == Cmd("LIGHT", "OFF")

\* Mutant of RoundDiv: the quotient cut off instead of rounded
Truncate(value, unit) == value \div unit

\* JavaScript's Math.round and Number.toFixed(0) on value / unit, both taken on
\* the exact quotient: nearest integer, a half rounding up
RoundDiv(value, unit) == (2 * value + unit) \div (2 * unit)

\* Array.prototype.indexOf: 0-based, -1 when absent
IndexOf(seq, x) ==
    IF \E i \in 1..Len(seq) : seq[i] = x
    THEN (CHOOSE i \in 1..Len(seq) : seq[i] = x /\ \A j \in 1..(i - 1) : seq[j] # x) - 1
    ELSE -1

getRotationSpeed(ci) ==
    IF ci.fanSpeed = "SHUTDOWN" THEN 0 ELSE IndexOf(FanSpeed, ci.fanSpeed) + 1

getRotationSpeedPercentage(ci) == getRotationSpeed(ci) * ROTATION_SPEED_UNIT

\* Mutant of getLightbulbBrightnessPercentage: the fan's unit for the light
getLightbulbBrightnessInFanUnits(ci) == ci.brightness * ROTATION_SPEED_UNIT

getLightbulbBrightnessPercentage(ci) == ci.brightness * LIGHTBULB_BRIGHTNESS_UNIT

\* Mutant of createCommandFromRotationSpeed: every level a fan-speed command
createCommandFromFanSpeedOnly(rotationSpeed) ==
    IF rotationSpeed \in 1 .. Len(FanSpeed)
    THEN Cmd("FAN_SPEED", FanSpeed[rotationSpeed]) ELSE Undefined

createCommandFromRotationSpeed(rotationSpeed) ==
    CASE rotationSpeed = 1 -> Cmd("MODE", "SILENT")
      [] rotationSpeed = 2 -> Cmd("FAN_SPEED", "WEAK")
      [] rotationSpeed = 3 -> Cmd("FAN_SPEED", "MEDIUM")
      [] rotationSpeed = 4 -> Cmd("FAN_SPEED", "STRONG")
      [] rotationSpeed = 5 -> Cmd("MODE", "TURBO")
      [] rotationSpeed = 6 -> Cmd("MODE", "MY_PET")
      [] OTHER -> Undefined

-----------------------------------------------------------------------------
(* Mapping of poll responses                                               *)

\* A raw numeric field of a vendor payload
RawMissing == [kind |-> "missing", n |-> 0]
RawEmpty == [kind |-> "empty", n |-> 0]
RawText == [kind |-> "text", n |-> 0]
RawNum(n) == [kind |-> "num", n |-> n]
\* A number followed by other characters, as "12abc"
RawPrefixed(n) == [kind |-> "prefixed", n |-> n]

\* The value NaN, kept apart from every number a payload holds
NaN == -1000

\* parseInt(str, 10): the leading integer of the string, NaN without one
parseInt(str) == IF str.kind \in {"num", "prefixed"} THEN str.n ELSE NaN

\* parseFloat(str): the leading number of the string, NaN without one
parseFloat(str) == IF str.kind \in {"num", "prefixed"} THEN str.n ELSE NaN

\* !str: undefined, null and the empty string
Falsy(str) == str.kind \in {"missing", "empty"}

parseNullableInt(str) ==
    IF Falsy(str) THEN 0
    ELSE IF parseInt(str) = NaN THEN 0 ELSE parseInt(str)

\* Mutant of parseNullableFloat: parseFloat without the guards
parseFloatUnguarded(str) == parseFloat(str)

parseNullableFloat(str) ==
    IF Falsy(str) THEN 0
    ELSE IF parseFloat(str) = NaN THEN 0 ELSE parseFloat(str)

DefaultControlInfo ==
    [on |-> FALSE, lightOn |-> FALSE, brightness |-> 0,
     mode |-> "AUTO_DRIVING", fanSpeed |-> "SHUTDOWN"]

getControlInfo(resp) ==
    IF ~resp.hasStatus
    THEN DefaultControlInfo
    ELSE [on |-> (resp.power = "1"),
          lightOn |-> (resp.light = "0"),
          brightness |-> parseNullableInt(resp.brightness),
          mode |-> resp.mode,
          fanSpeed |-> resp.fanSpeed]

DefaultIndoorAirQuality ==
    [humidity |-> 0, pm25Density |-> 0, pm10Density |-> 0, temperature |-> 0,
     vocDensity |-> 0]

getIndoorAirQuality(resp) ==
    IF ~resp.hasIAQ
    THEN DefaultIndoorAirQuality
    ELSE [humidity |-> parseNullableFloat(resp.humidity),
          pm25Density |-> parseNullableFloat(resp.dustpm25),
          pm10Density |-> parseNullableFloat(resp.dustpm10),
          temperature |-> parseNullableFloat(resp.temperature),
          vocDensity |-> parseNullableFloat(resp.vocs)]

getFilterInfos(resp) ==
    IF ~resp.hasList
    THEN <<>>
    ELSE [i \in 1..Len(resp.filterList) |->
            [filterName |-> resp.filterList[i].filterName,
             filterCode |-> resp.filterList[i].filterCode,
             filterPercentage |-> parseNullableInt(resp.filterList[i].filterPer)]]

-----------------------------------------------------------------------------
(* Vendor payloads the model draws from                                    *)

ControlStatus(power, light, brightness, mode, fanSpeed) ==
    [hasStatus |-> TRUE, power |-> power, light |-> light, brightness |-> brightness,
     mode |-> mode, fanSpeed |-> fanSpeed]

NoControlStatus ==
    [hasStatus |-> FALSE, power |-> "0", light |-> "3", brightness |-> RawMissing,
     mode |-> Other, fanSpeed |-> Other]

RawBrightness ==
    {RawMissing, RawEmpty, RawText, RawNum(0), RawNum(1), RawNum(2), RawNum(3),
     RawPrefixed(3)}

\* The control payloads the accessory may have been configured from: every
\* combination of the field values the handlers tell apart (of the modes they
\* only ask whether it is AUTO_DRIVING)
ControlResponses ==
    {NoControlStatus} \cup
    {ControlStatus(p, l, b, m, f) :
        p \in {"1", "0"}, l \in {"0", "3"}, b \in RawBrightness,
        m \in {"AUTO_DRIVING", "SILENT", Other},
        f \in {FanSpeed[i] : i \in 1..Len(FanSpeed)} \cup {Other}}

IAQ(humidity, pm25, pm10, temperature, vocs) ==
    [hasIAQ |-> TRUE, humidity |-> humidity, dustpm25 |-> pm25, dustpm10 |-> pm10,
     temperature |-> temperature, vocs |-> vocs]

NoIAQ ==
    [hasIAQ |-> FALSE, humidity |-> RawMissing, dustpm25 |-> RawMissing,
     dustpm10 |-> RawMissing, temperature |-> RawMissing, vocs |-> RawMissing]

Filter(name, code, per) == [filterName |-> name, filterCode |-> code, filterPer |-> per]

FilterList(list) == [hasList |-> TRUE, filterList |-> list]

NoFilterList == [hasList |-> FALSE, filterList |-> <<>>]

\* One poll: the responses of the accessory's three endpoints
Poll(control, iaq, filter) == [control |-> control, iaq |-> iaq, filter |-> filter]

NoPoll == Poll(NoControlStatus, NoIAQ, NoFilterList)

\* The polls a cycle may deliver
PollResponses ==
    { NoPoll,
      Poll(ControlStatus("1", "0", RawNum(2), "AUTO_DRIVING", "WEAK"),
           IAQ(RawNum(40), RawNum(12), RawNum(30), RawPrefixed(21), RawNum(1)),
           FilterList(<<Filter("pre", "3111", RawNum(80)), Filter("max2", "3121", RawEmpty)>>)),
      Poll(ControlStatus("1", "3", RawEmpty, "SILENT", "MEDIUM"),
           IAQ(RawEmpty, RawMissing, RawNum(-1), RawText, RawNum(0)),
           FilterList(<<>>)),
      Poll(ControlStatus("0", "0", RawNum(3), "TURBO", "STRONG"),
           NoIAQ,
           FilterList(<<Filter("pre", "3111", RawNum(100))>>)),
      Poll(ControlStatus("1", "3", RawNum(1), "MY_PET", Other),
           IAQ(RawNum(55), RawNum(80), RawNum(160), RawNum(25), RawNum(2)),
           NoFilterList),
      Poll(ControlStatus("0", "3", RawNum(0), Other, "SHUTDOWN"),
           IAQ(RawNum(40), RawNum(5), RawNum(5), RawNum(20), RawMissing),
           FilterList(<<Filter("pre", "3111", RawText)>>)) }

-----------------------------------------------------------------------------
(* The parts of the program a specification leaves at rest                 *)

NoToken == [kind |-> "undefined", id |-> 0, exp |-> 0]

Jwt(id, exp) == [kind |-> "jwt", id |-> id, exp |-> exp]

TokenPair(access, refresh) == [accessToken |-> access, refreshToken |-> refresh]

QuietGateway ==
    /\ accessToken = TokenPair(NoToken, 0)
    /\ now = 0
    /\ call = <<>>
    /\ issued = 0

QuietSignIn ==
    /\ auth = [pc |-> "idle"]
    /\ posted = <<>>

\* The platform with its timer running and nothing else going on
QuietPlatform ==
    platform = [pc |-> "launched", signIn |-> "returned", listed |-> "list",
                success |-> TRUE, cached |-> <<>>, registry |-> <<>>,
                devices |-> <<>>, cursor |-> 1,
                asked |-> <<>>, connections |-> [kind |-> "none", data |-> <<>>],
                added |-> 0, removed |-> 0, timer |-> TRUE, timers |-> 1,
                caught |-> FALSE, exited |-> FALSE]

NoAnswer ==
    [of |-> "none", on |-> FALSE, pm10 |-> 0, pm25 |-> 0, polled |-> FALSE,
     iaq |-> NoIAQ, trail |-> <<>>, command |-> Undefined]

QuietHost == answer = NoAnswer

IdleCycle ==
    [pc |-> "idle", cursor |-> 1, reordered |-> FALSE, after |-> "idle",
     failure |-> "none", earlier |-> "none"]

QuietPoll ==
    /\ endpoints = <<>>
    /\ cycle = IdleCycle
    /\ results = <<>>
    /\ arrival = <<>>
    /\ responses = <<>>
    /\ delivered = <<>>

-----------------------------------------------------------------------------
(* The host's intents on one accessory                                     *)

\* Values the host may write to RotationSpeed and Brightness: the multiples of
\* the characteristic's minStep, and whole percentages around the rounding steps
RotationSpeedValues ==
    {l * ROTATION_SPEED_UNIT : l \in 0..6} \cup {6 * p : p \in {9, 25}}

BrightnessValues ==
    {b * LIGHTBULB_BRIGHTNESS_UNIT : b \in 0..3} \cup {6 * p : p \in {16, 50}}

NoIntent ==
    [op |-> "none", value |-> 0, pre |-> DefaultControlInfo, refreshing |-> FALSE,
     calls |-> <<>>, status |-> "none", outcome |-> "none", polled |-> TRUE,
     repeat |-> FALSE]

\* What a SET handler did: the vendor calls it made (each a batch of commands)
\* and what it told the host.  pre is the controlInfo and refreshing the
\* characteristicRefreshing it found; polled says a poll has been applied since
\* (pre is then dropped); repeat says the intent before it was the same intent,
\* with no poll applied in between; outcome is how the vendor call ended.
Intent(op, value, calls, status) ==
    [op |-> op, value |-> value, pre |-> controlInfo,
     refreshing |-> characteristicRefreshing, calls |-> calls, status |-> status,
     outcome |-> "none", polled |-> FALSE,
     repeat |-> (last.op = op /\ last.value = value /\ ~last.polled)]

\* Accessory.executeSetPayloads / executeSetPayload: one call of
\* CowayService.executeSetPayloads with the batch; the handler then waits
Sent(op, value, batch) == Intent(op, value, <<batch>>, "awaiting")

Suppressed(op, value) == Intent(op, value, <<>>, "success")

\* Mutant of Rejected: the power=on already pushed is sent before the rejection
RejectedAfterCall(op, value) == Intent(op, value, <<<<PowerOn>>>>, "rejected")

Rejected(op, value) == Intent(op, value, <<>>, "rejected")

HostIdle == last.status # "awaiting"

AccFrame == UNCHANGED <<indoorAirQuality, filterInfos, isConnected,
                        characteristicRefreshing, pollPhase, applied, airQuality,
                        gatewayVars, signInVars, pollVars, platformVars, hostVars>>

\* Mutant of SetActive: the comparison with the current value is missing
SetActiveUnchecked(enabled) ==
    /\ HostIdle
    /\ controlInfo' =
         IF enabled = 1
         THEN [controlInfo EXCEPT !.on = TRUE]
         ELSE [controlInfo EXCEPT !.on = FALSE, !.lightOn = FALSE, !.brightness = 0]
    /\ last' = Sent("setPower", enabled, <<IF enabled = 1 THEN PowerOn ELSE PowerOff>>)
    /\ AccFrame

\* Mutant of TurnEverythingOff: only the power is turned off
TurnPowerOff(ci) == [ci EXCEPT !.on = FALSE]

\* "Turn everything off": the local change of the Active handler for off
TurnEverythingOff(ci) == [ci EXCEPT !.on = FALSE, !.lightOn = FALSE, !.brightness = 0]

\* The vendor calls of the setTimeout of the Active handler: it writes On =
\* false and the brightness percentage to the lightbulb service, and each
\* write runs the characteristic's SET handler on the local state it finds
DeferredLightCalls(ci) ==
    (IF ci.lightOn = FALSE THEN <<>> ELSE << <<LightOffCmd>> >>)
    \o (IF ci.brightness = RoundDiv(getLightbulbBrightnessPercentage(ci),
                                    LIGHTBULB_BRIGHTNESS_UNIT)
        THEN <<>>
        ELSE << <<LightOffCmd>> >>)

\* Active SET handler (the intent setPower); enabled is 1 or 0
SetActive(enabled) ==
    /\ HostIdle
    /\ IF (enabled = 1) = controlInfo.on
       THEN /\ last' = Suppressed("setPower", enabled)
            /\ UNCHANGED controlInfo
       ELSE IF enabled = 1
       THEN /\ controlInfo' = [controlInfo EXCEPT !.on = TRUE]
            /\ last' = Sent("setPower", enabled, <<PowerOn>>)
       ELSE /\ controlInfo' = TurnEverythingOff(controlInfo)
            /\ last' = Intent("setPower", enabled,
                              << <<PowerOff>> >> \o DeferredLightCalls(controlInfo'),
                              "awaiting")
    /\ AccFrame

\* Lightbulb On SET handler (the intent setLightOn); enabled is 1 or 0
SetLightOn(enabled) ==
    /\ HostIdle
    /\ IF controlInfo.lightOn = (enabled = 1)
       THEN /\ last' = Suppressed("setLightOn", enabled)
            /\ UNCHANGED controlInfo
       ELSE IF ~controlInfo.on /\ enabled = 1
       THEN /\ last' = Sent("setLightOn", enabled, <<PowerOn>>)
            /\ UNCHANGED controlInfo
       ELSE /\ controlInfo' = [controlInfo EXCEPT !.lightOn = (enabled = 1)]
            /\ last' = Sent("setLightOn", enabled,
                            <<IF enabled = 1 THEN LightOnCmd ELSE LightOffCmd>>)
    /\ AccFrame

\* Mutant of WithPowerOn: the power=on command is forgotten
WithPowerOnForgotten(ci, command) == <<command>>

\* The batch of the Brightness and RotationSpeed handlers: power=on first when
\* the purifier is off, then the capability's command
WithPowerOn(ci, command) == (IF ~ci.on THEN <<PowerOn>> ELSE <<>>) \o <<command>>

\* Mutant of SetBrightness: level 0 is sent like any other level
SetBrightnessZeroAsLevel(value) ==
    LET brightness == RoundDiv(value, LIGHTBULB_BRIGHTNESS_UNIT) IN
    /\ HostIdle
    /\ IF controlInfo.brightness = brightness
       THEN /\ last' = Suppressed("setLightBrightness", value)
            /\ UNCHANGED controlInfo
       ELSE /\ controlInfo' = [controlInfo EXCEPT !.brightness = brightness]
            /\ last' = Sent("setLightBrightness", value,
                            WithPowerOn(controlInfo, Cmd("LIGHT_BRIGHTNESS", brightness)))
    /\ AccFrame

\* Lightbulb Brightness SET handler (the intent setLightBrightness)
SetBrightness(value) ==
    LET brightness == RoundDiv(value, LIGHTBULB_BRIGHTNESS_UNIT) IN
    /\ HostIdle
    /\ IF controlInfo.brightness = brightness
       THEN /\ last' = Suppressed("setLightBrightness", value)
            /\ UNCHANGED controlInfo
       ELSE IF brightness = 0
       THEN /\ controlInfo' = [controlInfo EXCEPT !.brightness = 0, !.lightOn = FALSE]
            /\ last' = Sent("setLightBrightness", value, <<LightOffCmd>>)
       ELSE /\ controlInfo' = [controlInfo EXCEPT !.brightness = brightness]
            /\ last' = Sent("setLightBrightness", value,
                            WithPowerOn(controlInfo, Cmd("LIGHT_BRIGHTNESS", brightness)))
    /\ AccFrame

\* executeRotationCommand: the local change a rotation command makes
executeRotationCommand(ci, command) ==
    IF command.key = "MODE" THEN [ci EXCEPT !.mode = command.value]
    ELSE IF command.key = "FAN_SPEED" THEN [ci EXCEPT !.fanSpeed = command.value]
    ELSE ci

\* TargetAirPurifierState SET handler (the intent setAutoMode); isAuto is 1 or 0,
\* with driveAutomatically and driveManually
SetTargetState(isAuto) ==
    LET command == createCommandFromRotationSpeed(getRotationSpeed(controlInfo)) IN
    /\ HostIdle
    /\ IF ~controlInfo.on \/ controlInfo.fanSpeed = "SHUTDOWN"
       THEN /\ last' = Suppressed("setAutoMode", isAuto)
            /\ UNCHANGED controlInfo
       ELSE IF (controlInfo.mode = "AUTO_DRIVING") = (isAuto = 1)
       THEN /\ last' = Suppressed("setAutoMode", isAuto)
            /\ UNCHANGED controlInfo
       ELSE IF isAuto = 1
       THEN /\ controlInfo' = [controlInfo EXCEPT !.mode = "AUTO_DRIVING"]
            /\ last' = Sent("setAutoMode", isAuto, <<Cmd("MODE", "AUTO_DRIVING")>>)
       ELSE IF command # Undefined
       THEN /\ controlInfo' = executeRotationCommand(controlInfo, command)
            /\ last' = Sent("setAutoMode", isAuto, <<command>>)
       ELSE /\ last' = Rejected("setAutoMode", isAuto)
            /\ UNCHANGED controlInfo
    /\ AccFrame

\* RotationSpeed SET handler (the intent setFanPercentage)
SetRotationSpeed(value) ==
    LET oldRotationSpeed == getRotationSpeed(controlInfo)
        newRotationSpeed == RoundDiv(value, ROTATION_SPEED_UNIT)
        command == createCommandFromRotationSpeed(newRotationSpeed)
    IN
    /\ HostIdle
    /\ IF controlInfo.mode = "AUTO_DRIVING" /\ characteristicRefreshing
       THEN last' = Suppressed("setFanPercentage", value)
       ELSE IF oldRotationSpeed = newRotationSpeed
       THEN last' = Suppressed("setFanPercentage", value)
       ELSE IF controlInfo.on /\ newRotationSpeed = 0
       THEN last' = Suppressed("setFanPercentage", value)
       ELSE IF command # Undefined
       THEN last' = Sent("setFanPercentage", value, WithPowerOn(controlInfo, command))
       ELSE last' = Rejected("setFanPercentage", value)
    /\ UNCHANGED controlInfo
    /\ AccFrame

\* How the vendor call of an intent may end: a 2xx answer, a vendor error
\* body, or no answer at all (the gateway call rejects)
Outcomes == {"ok", "vendor error", "failed"}

\* Mutant of VendorAnswer: a call that did not go through undoes the local change
VendorAnswerRollsBack(outcome) ==
    /\ last.status = "awaiting"
    /\ last' = [last EXCEPT !.status = "success", !.outcome = outcome]
    /\ controlInfo' = IF outcome = "ok" THEN controlInfo ELSE last.pre
    /\ UNCHANGED <<indoorAirQuality, filterInfos, isConnected,
                   characteristicRefreshing, pollPhase, applied, airQuality>>
    /\ UNCHANGED <<gatewayVars, signInVars, pollVars, platformVars, hostVars>>

\* The vendor answers the handler's call, or the call fails: executeSetPayloads
\* catches either way and the handler calls back without an error
VendorAnswer(outcome) ==
    /\ last.status = "awaiting"
    /\ last' = [last EXCEPT !.status = "success", !.outcome = outcome]
    /\ UNCHANGED <<controlInfo, indoorAirQuality, filterInfos, isConnected,
                   characteristicRefreshing, pollPhase, applied, airQuality>>
    /\ UNCHANGED <<gatewayVars, signInVars, pollVars, platformVars, hostVars>>

-----------------------------------------------------------------------------
(* The poll of one accessory                                               *)

\* refreshDevicesParallel issues the accessory's endpoint requests
PollIssue ==
    /\ pollPhase = "idle"
    /\ pollPhase' = "inflight"
    /\ UNCHANGED <<controlInfo, indoorAirQuality, filterInfos, isConnected,
                   characteristicRefreshing, applied, airQuality, last>>
    /\ UNCHANGED <<gatewayVars, signInVars, pollVars, platformVars, hostVars>>

\* Mutant of refresh: a poll keeps the power state a command has set
refreshKeepingPower(ci, poll) == [getControlInfo(poll.control) EXCEPT !.on = ci.on]

\* The controlInfo MarvelAirPurifier.refresh leaves, given the one it finds
refresh(ci, poll) == getControlInfo(poll.control)

\* Mutant of RefreshApply: the responses are applied, connected or not
RefreshApplyUnconnected(poll, connected) ==
    /\ pollPhase = "inflight"
    /\ isConnected' = connected
    /\ filterInfos' = getFilterInfos(poll.filter)
    /\ indoorAirQuality' = getIndoorAirQuality(poll.iaq)
    /\ controlInfo' = refresh(controlInfo, poll)
    /\ characteristicRefreshing' = TRUE
    /\ applied' = <<poll>>
    /\ pollPhase' = "refreshing"
    /\ last' = [last EXCEPT !.polled = TRUE, !.pre = DefaultControlInfo]
    /\ UNCHANGED airQuality
    /\ UNCHANGED <<gatewayVars, signInVars, pollVars, platformVars, hostVars>>

\* MarvelAirPurifier.refresh with the zipped responses of the cycle; connected
\* is what Accessory.refresh finds
RefreshApply(poll, connected) ==
    /\ pollPhase = "inflight"
    /\ isConnected' = connected
    /\ IF connected
       THEN /\ filterInfos' = getFilterInfos(poll.filter)
            /\ indoorAirQuality' = getIndoorAirQuality(poll.iaq)
            /\ controlInfo' = refresh(controlInfo, poll)
            /\ characteristicRefreshing' = TRUE
            /\ applied' = <<poll>>
            /\ pollPhase' = "refreshing"
            /\ last' = [last EXCEPT !.polled = TRUE, !.pre = DefaultControlInfo]
       ELSE /\ pollPhase' = "idle"
            /\ UNCHANGED <<controlInfo, indoorAirQuality, filterInfos,
                           characteristicRefreshing, applied, last>>
    /\ UNCHANGED airQuality
    /\ UNCHANGED <<gatewayVars, signInVars, pollVars, platformVars, hostVars>>

\* Accessory.refreshCharacteristics has pushed the values to the host
RefreshDone ==
    /\ pollPhase = "refreshing"
    /\ pollPhase' = "idle"
    /\ characteristicRefreshing' = FALSE
    /\ applied' = <<>>
    /\ UNCHANGED <<controlInfo, indoorAirQuality, filterInfos, isConnected,
                   airQuality, last>>
    /\ UNCHANGED <<gatewayVars, signInVars, pollVars, platformVars, hostVars>>

\* The accessory once configure has run: its context mapped from a first poll
ConfiguredAccessory(controls) ==
    /\ controlInfo \in {getControlInfo(r) : r \in controls}
    /\ indoorAirQuality = DefaultIndoorAirQuality
    /\ filterInfos = <<>>
    /\ isConnected = TRUE
    /\ characteristicRefreshing = FALSE
    /\ pollPhase = "idle"
    /\ applied = <<>>
    /\ airQuality = DefaultIndoorAirQuality
    /\ last = NoIntent

InitAccessory ==
    /\ ConfiguredAccessory(ControlResponses)
    /\ QuietGateway
    /\ QuietSignIn
    /\ QuietPoll
    /\ QuietPlatform
    /\ QuietHost

QuietAccessory == ConfiguredAccessory({NoControlStatus})

NextAccessory ==
    \/ \E enabled \in {0, 1} : SetActive(enabled)
    \/ \E enabled \in {0, 1} : SetLightOn(enabled)
    \/ \E value \in BrightnessValues : SetBrightness(value)
    \/ \E isAuto \in {0, 1} : SetTargetState(isAuto)
    \/ \E value \in RotationSpeedValues : SetRotationSpeed(value)
    \/ \E outcome \in Outcomes : VendorAnswer(outcome)
    \/ PollIssue
    \/ \E poll \in PollResponses, connected \in BOOLEAN : RefreshApply(poll, connected)
    \/ RefreshDone

SpecAccessory == InitAccessory /\ [][NextAccessory]_vars

-----------------------------------------------------------------------------
(* configure: the one poll of an accessory that has just been constructed, *)
(* for a new device or from the cache                                      *)

\* The accessory as constructed: the context holds the defaults of a new
\* platform accessory or what the cache has kept of an earlier run
ConstructedAccessory(controls) ==
    /\ controlInfo \in {getControlInfo(r) : r \in controls}
    /\ indoorAirQuality = DefaultIndoorAirQuality
    /\ filterInfos = <<>>
    /\ isConnected \in BOOLEAN
    /\ characteristicRefreshing = FALSE
    /\ pollPhase = "constructed"
    /\ applied = <<>>
    /\ airQuality = DefaultIndoorAirQuality
    /\ last = NoIntent

\* configure is called: super.configure, then refreshDevice issues the
\* requests to the accessory's endpoints
Configure ==
    /\ pollPhase = "constructed"
    /\ pollPhase' = "configuring"
    /\ UNCHANGED <<controlInfo, indoorAirQuality, filterInfos, isConnected,
                   characteristicRefreshing, applied, airQuality, last>>
    /\ UNCHANGED <<gatewayVars, signInVars, pollVars, platformVars, hostVars>>

\* refreshDevice returns the responses; connected is what it leaves in
\* isConnected.  The context is replaced only if the device is connected;
\* the services are registered either way (registerAirQualityService
\* captures the context's indoorAirQuality), and configure returns.  applied
\* keeps the responses of this one poll
RefreshDevice(poll, connected) ==
    /\ pollPhase = "configuring"
    /\ isConnected' = connected
    /\ IF connected
       THEN /\ filterInfos' = getFilterInfos(poll.filter)
            /\ indoorAirQuality' = getIndoorAirQuality(poll.iaq)
            /\ controlInfo' = getControlInfo(poll.control)
       ELSE UNCHANGED <<controlInfo, indoorAirQuality, filterInfos>>
    /\ applied' = <<poll>>
    /\ airQuality' = indoorAirQuality'
    /\ pollPhase' = "configured"
    /\ UNCHANGED <<characteristicRefreshing, last>>
    /\ UNCHANGED <<gatewayVars, signInVars, pollVars, platformVars, hostVars>>

InitConfigure ==
    /\ ConstructedAccessory(ControlResponses)
    /\ QuietGateway
    /\ QuietSignIn
    /\ QuietPoll
    /\ QuietPlatform
    /\ QuietHost

NextConfigure ==
    \/ Configure
    \/ \E poll \in PollResponses, connected \in BOOLEAN : RefreshDevice(poll, connected)

SpecConfigure == InitConfigure /\ [][NextConfigure]_vars

-----------------------------------------------------------------------------
(* Claims about the accessory's intents and polls (SpecAccessory)          *)

\* The latest intent, with no poll applied since: last.pre is the local state
\* it found and controlInfo the local state it left
Fresh(op) == last.op = op /\ ~last.polled

NewRotationSpeed == RoundDiv(last.value, ROTATION_SPEED_UNIT)

NewBrightness == RoundDiv(last.value, LIGHTBULB_BRIGHTNESS_UNIT)

SpeedOrModeCommand(c) ==
    /\ c.key \in {"MODE", "FAN_SPEED"}
    /\ c = createCommandFromRotationSpeed(NewRotationSpeed)

\* The intent made one vendor call, of power=on followed by command c
PowerOnThen(c) == last.calls = << <<PowerOn, c>> >>

\* C1 as stated: setFanPercentage while the device is off, with a level other
\* than the reported one, emits exactly power=on and then the speed/mode command
\* in one vendor call; with the reported percentage it emits nothing.
C1_Original ==
    Fresh("setFanPercentage") =>
        /\ (~last.pre.on /\ NewRotationSpeed # getRotationSpeed(last.pre))
               => /\ Len(last.calls) = 1
                  /\ Len(last.calls[1]) = 2
                  /\ last.calls[1][1] = PowerOn
                  /\ SpeedOrModeCommand(last.calls[1][2])
        /\ (last.value = getRotationSpeedPercentage(last.pre)) => last.calls = <<>>

\* C1, amended: setFanPercentage while the device is off, with a level in 1..6
\* other than the reported one and not ignored (auto mode during a characteristic
\* refresh), emits exactly power=on and then the speed/mode command in one vendor
\* call; with the percentage the device reports it makes no vendor call.
C1_FanWhileOff ==
    Fresh("setFanPercentage") =>
        /\ (/\ ~last.pre.on
            /\ NewRotationSpeed \in 1..6
            /\ NewRotationSpeed # getRotationSpeed(last.pre)
            /\ ~(last.pre.mode = "AUTO_DRIVING" /\ last.refreshing))
               => /\ Len(last.calls) = 1
                  /\ Len(last.calls[1]) = 2
                  /\ last.calls[1][1] = PowerOn
                  /\ SpeedOrModeCommand(last.calls[1][2])
        /\ (last.value = getRotationSpeedPercentage(last.pre)) => last.calls = <<>>

C1_Witness ==
    /\ Fresh("setFanPercentage")
    /\ ~last.pre.on
    /\ NewRotationSpeed # getRotationSpeed(last.pre)
    /\ last.calls = << <<PowerOn, Cmd("FAN_SPEED", "MEDIUM")>> >>

\* The capability command of an intent that turns the light or the fan on
OwnCommand ==
    CASE last.op = "setLightOn" -> LightOnCmd
      [] last.op = "setLightBrightness" -> Cmd("LIGHT_BRIGHTNESS", NewBrightness)
      [] OTHER -> createCommandFromRotationSpeed(NewRotationSpeed)

\* The intent asks for a subordinate capability to be on, and the local state
\* does not have it so yet
TurnsCapabilityOn ==
    \/ Fresh("setLightOn") /\ last.value = 1 /\ ~last.pre.lightOn
    \/ Fresh("setLightBrightness") /\ NewBrightness # 0
          /\ NewBrightness # last.pre.brightness
    \/ Fresh("setFanPercentage") /\ NewRotationSpeed \in 1..6
          /\ NewRotationSpeed # getRotationSpeed(last.pre)
          /\ ~(last.pre.mode = "AUTO_DRIVING" /\ last.refreshing)

\* C2: an intent that turns the light or the fan on while the device is off
\* emits power=on followed by the capability's own command in one vendor call.
C2_PowerOnPrepended ==
    (TurnsCapabilityOn /\ ~last.pre.on) => PowerOnThen(OwnCommand)

\* The requested value is the current local value
RequestedIsCurrent ==
    CASE last.op = "setPower" -> (last.value = 1) = last.pre.on
      [] last.op = "setLightOn" -> (last.value = 1) = last.pre.lightOn
      [] last.op = "setLightBrightness" -> NewBrightness = last.pre.brightness
      [] last.op = "setAutoMode" -> (last.value = 1) = (last.pre.mode = "AUTO_DRIVING")
      [] last.op = "setFanPercentage" -> NewRotationSpeed = getRotationSpeed(last.pre)
      [] OTHER -> FALSE

ReflectsRequest ==
    CASE last.op = "setPower" -> controlInfo.on = (last.value = 1)
      [] last.op = "setLightOn" -> controlInfo.lightOn = (last.value = 1)
      [] last.op = "setLightBrightness" -> controlInfo.brightness = NewBrightness
      [] last.op = "setAutoMode" -> (controlInfo.mode = "AUTO_DRIVING") = (last.value = 1)
      [] last.op = "setFanPercentage" -> getRotationSpeed(controlInfo) = NewRotationSpeed
      [] OTHER -> TRUE

\* C4: once an intent has sent its vendor command, and until the next poll, the
\* local ControlInfo holds the requested value.
C4_OptimisticBeforeSend ==
    (last.op # "none" /\ ~last.polled /\ last.calls # <<>>) => ReflectsRequest

-----------------------------------------------------------------------------
(* The vendor gateway: executeIoCarePayload and its token refresh          *)
(*                                                                         *)
(* An access token is a JWT; the model keeps of it the identity of the     *)
(* pair it was issued in and its exp claim.  A refresh token is the        *)
(* identity of its pair, 0 standing for the undefined value.               *)

MaxCallers == 2

MaxTime == 2

Callers == 1 .. MaxCallers

\* JavaScript truthiness of the accessToken field: '' and undefined are falsy
Truthy(token) == token.kind = "jwt"

\* expire < now: a token whose exp equals the current time is not expired yet
isExpired(token, clock) == token.exp < clock

\* The Authorization header of a request: set only from a truthy access token
Authorization(pair) ==
    IF Truthy(pair.accessToken) THEN pair.accessToken ELSE NoToken

NoBody == [status |-> "none", hasData |-> FALSE,
           accessToken |-> NoToken, refreshToken |-> 0]

\* A 2xx answer of the refresh endpoint: body.data holds a new pair
RefreshedBody(id, exp) ==
    [status |-> "ok", hasData |-> TRUE,
     accessToken |-> Jwt(id, exp), refreshToken |-> id]

\* A vendor error answer of the refresh endpoint: its body has a data object
\* holding no tokens, or no data object at all
ErrorBody(hasData) ==
    [status |-> "error", hasData |-> hasData,
     accessToken |-> NoToken, refreshToken |-> 0]

\* The answers of the refresh endpoint: a new pair whose access token is
\* expired from the start or outlives the run, or a vendor error
RefreshBodies ==
    {RefreshedBody(issued + 1, exp) : exp \in {0, MaxTime + 1}}
        \cup {ErrorBody(hasData) : hasData \in BOOLEAN}

HttpMethods == {"GET", "POST"}

MaxNesting == 2

\* IoCareEndpoint.REFRESH_TOKEN, and the endpoints the callers ask for
RefreshToken == "REFRESH_TOKEN"

UrlKeys == {"GET_USER_DEVICES", "CONTROL_DEVICE"}

\* Mutant of ExpiryCheck: the refresh call checks the expiry as well
ExpiryCheckEverywhere(urlKey, pair, clock) ==
    Truthy(pair.accessToken) /\ isExpired(pair.accessToken, clock)

\* The refresh block is entered: the token is truthy, the call is not the
\* refresh call, and the token's exp lies before the clock
ExpiryCheck(urlKey, pair, clock) ==
    /\ Truthy(pair.accessToken)
    /\ urlKey # RefreshToken
    /\ isExpired(pair.accessToken, clock)

RECURSIVE RefreshCalls(_, _, _, _)
\* The refresh calls a call of urlKey makes before anything is sent: the one
\* of its refresh block, and those that call makes in turn (it carries the
\* same pair), followed to the depth MaxNesting
RefreshCalls(urlKey, pair, clock, depth) ==
    IF depth < MaxNesting /\ ExpiryCheck(urlKey, pair, clock)
    THEN 1 + RefreshCalls(RefreshToken, pair, clock, depth + 1)
    ELSE 0

IdleCall ==
    [pc |-> "idle", httpMethod |-> "none", authenticated |-> FALSE,
     expired |-> FALSE,
     held |-> TokenPair(NoToken, 0), refreshCalls |-> 0,
     refreshBody |-> NoBody, bearer |-> NoToken, result |-> "none"]

\* The request of the call proper goes out, with the header built from the
\* shared pair as it is at that moment
SendIoCare(c, pair) ==
    [c EXCEPT !.pc = "sent", !.bearer = Authorization(pair)]

GatewayFrame == UNCHANGED <<accVars, signInVars, pollVars, platformVars, hostVars>>

\* A caller enters executeIoCarePayload with the shared pair, for an endpoint
\* other than the refresh endpoint, through executeIoCareGetPayload or
\* executeIoCarePostPayload
ExecuteIoCarePayload(c, httpMethod, urlKey) ==
    /\ call[c].pc = "idle"
    /\ LET entered == [call[c] EXCEPT
                          !.httpMethod = httpMethod,
                          !.authenticated = Truthy(accessToken.accessToken),
                          !.held = accessToken]
       IN  IF ExpiryCheck(urlKey, accessToken, now)
           THEN call' = [call EXCEPT ![c] =
                            [entered EXCEPT
                                !.pc = "refreshing",
                                !.expired = TRUE,
                                !.refreshCalls =
                                    @ + RefreshCalls(urlKey, accessToken, now, 0)]]
           ELSE call' = [call EXCEPT ![c] = SendIoCare(entered, accessToken)]
    /\ UNCHANGED <<accessToken, now, issued>>
    /\ GatewayFrame

\* Mutant of RefreshTokenAnswer: the first refresh to be answered wins
RefreshTokenAnswerOnce(c, body) ==
    /\ call[c].pc = "refreshing"
    /\ issued' = IF body.status = "ok" THEN issued + 1 ELSE issued
    /\ accessToken' = IF accessToken = call[c].held /\ body.hasData
                      THEN TokenPair(body.accessToken, body.refreshToken)
                      ELSE accessToken
    /\ call' = [call EXCEPT ![c] =
                   SendIoCare([@ EXCEPT !.refreshBody = body], accessToken')]
    /\ UNCHANGED now
    /\ GatewayFrame

\* The refresh endpoint answers the caller's refresh call
RefreshTokenAnswer(c, body) ==
    /\ call[c].pc = "refreshing"
    /\ issued' = IF body.status = "ok" THEN issued + 1 ELSE issued
    /\ IF body.hasData
       THEN /\ accessToken' = TokenPair(body.accessToken, body.refreshToken)
            /\ call' = [call EXCEPT ![c] =
                           SendIoCare([@ EXCEPT !.refreshBody = body],
                                      accessToken')]
       ELSE /\ call' = [call EXCEPT ![c] =
                           [@ EXCEPT !.refreshBody = body, !.pc = "threw",
                                     !.result = "TypeError"]]
            /\ UNCHANGED accessToken
    /\ UNCHANGED now
    /\ GatewayFrame

\* The endpoint of the call proper answers, to wrapGet or to wrapPost: the
\* body is returned either way
IoCareAnswer(c, status) ==
    /\ call[c].pc = "sent"
    /\ call' = [call EXCEPT ![c] =
                   [@ EXCEPT !.pc = "returned",
                             !.result = IF status = "ok" THEN "data"
                                        ELSE "vendorErrorBody"]]
    /\ UNCHANGED <<accessToken, now, issued>>
    /\ GatewayFrame

Tick ==
    /\ now < MaxTime
    /\ now' = now + 1
    /\ UNCHANGED <<accessToken, call, issued>>
    /\ GatewayFrame

InitGateway ==
    /\ accessToken \in {TokenPair(Jwt(1, exp), 1) : exp \in 0 .. MaxTime}
                           \cup {TokenPair(NoToken, 0)}
    /\ now = 0
    /\ call = [c \in Callers |-> IdleCall]
    /\ issued = 1
    /\ QuietAccessory
    /\ QuietSignIn
    /\ QuietPoll
    /\ QuietPlatform
    /\ QuietHost

NextGateway ==
    \/ \E c \in Callers : \E httpMethod \in HttpMethods : \E urlKey \in UrlKeys :
           ExecuteIoCarePayload(c, httpMethod, urlKey)
    \/ \E c \in Callers : \E body \in RefreshBodies : RefreshTokenAnswer(c, body)
    \/ \E c \in Callers : \E status \in {"ok", "error"} : IoCareAnswer(c, status)
    \/ Tick

SpecGateway == InitGateway /\ [][NextGateway]_vars

-----------------------------------------------------------------------------
(* Claims about the token refresh (SpecGateway)                            *)

\* C6: an authenticated call whose access token has expired makes exactly one
\* refresh call, which is answered before the call's own request is sent, and
\* that request carries the refreshed access token; a call whose token has not
\* expired makes no refresh call
C6_RefreshBeforeCall ==
    \A c \in Callers :
        (call[c].authenticated /\ call[c].pc # "idle") =>
            IF call[c].expired
            THEN /\ call[c].refreshCalls = 1
                 /\ call[c].pc \in {"sent", "returned"} =>
                        /\ call[c].refreshBody # NoBody
                        /\ Truthy(call[c].bearer)
                        /\ call[c].bearer = call[c].refreshBody.accessToken
                        /\ call[c].bearer # call[c].held.accessToken
            ELSE call[c].refreshCalls = 0

\* C7: when the refresh endpoint answers with a vendor error, the shared pair
\* keeps both of its tokens and the call ends with the vendor's error
C7_FailedRefreshKeepsTokens ==
    [][\A c \in Callers :
          (call[c].pc = "refreshing" /\ call'[c].refreshBody.status = "error") =>
              /\ accessToken' = accessToken
              /\ call'[c].pc = "returned"
              /\ call'[c].result = "vendorErrorBody"]_vars

\* C20: a call of the gateway that receives a vendor error answer, to its
\* refresh call or to its own request, by GET or by POST, raises no local
\* error, and the vendor's error body answering its request is its result
C20_ErrorBodyIsTheResult ==
    [][\A c \in Callers :
          /\ (call[c].pc = "refreshing" /\ call'[c].refreshBody.status = "error") =>
                 call'[c].pc # "threw"
          /\ (call[c].pc = "sent" /\ call'[c].pc = "returned"
                  /\ call'[c].result # "data") =>
                 /\ call'[c].httpMethod \in HttpMethods
                 /\ call'[c].result = "vendorErrorBody"]_vars

-----------------------------------------------------------------------------
(* Sign-in: parseSession and authenticate                                  *)
(*                                                                         *)
(* A response of the sign-in host is either the terminal redirect to       *)
(* redirect_bridge.html, whose path carries a query, or another page,      *)
(* whose HTML may hold a form with a session code.  A session code as it   *)
(* stands in the HTML is a sequence of pieces, "&amp;" among them; a query *)
(* is a sequence of key=value parameters.                                  *)

MaxPosts == 4

NoForm == <<"no form">>

NoQuery == <<[key |-> "no query", value |-> ""]>>

Param(key, value) == [key |-> key, value |-> value]

Page(form) == [terminal |-> FALSE, form |-> form, query |-> NoQuery]

RedirectBridge(query) == [terminal |-> TRUE, form |-> NoForm, query |-> query]

RawSessionCodes == {<<"s1">>, <<"s2", "&amp;", "e">>}

Queries ==
    {<<Param("code", "A")>>,
     <<Param("state", "x"), Param("code", "B")>>,
     <<Param("code", "A"), Param("code", "B")>>,
     <<Param("state", "x")>>}

Pages == {Page(form) : form \in RawSessionCodes \cup {NoForm}}

SignInResponses ==
    Pages \cup {RedirectBridge(query) : query \in Queries \cup {NoQuery}}

Cookies == {"c1", "c2"}

LogInRequest == "username,password"

PasswordUpdateRequest == "change_next_time"

\* The fourth group of the regular expression, with "&amp;" replaced by "&"
parseSessionCode(response) ==
    [i \in 1 .. Len(response.form) |->
        IF response.form[i] = "&amp;" THEN "&" ELSE response.form[i]]

Session(session, cookies) == [session |-> session, cookies |-> cookies]

\* dicts[key] after the loop over the parameters: a later one overwrites
dicts(query, key) ==
    LET at == {i \in 1 .. Len(query) : query[i].key = key}
    IN  IF at = {} THEN "undefined"
        ELSE query[CHOOSE i \in at : \A j \in at : j <= i].value

BypassWithStaleSession(session, response) ==
    [form |-> PasswordUpdateRequest, session |-> session]

\* The recursive call's arguments: the form that skips the password change,
\* and the session read from the page just received with the cookies kept
Bypass(session, response) ==
    [form |-> PasswordUpdateRequest,
     session |-> Session(parseSessionCode(response), session.cookies)]

SignInFrame == UNCHANGED <<accVars, gatewayVars, pollVars, platformVars, hostVars>>

\* signIn: the GET of the sign-in page gives the first session
ParseSession(response, cookies) ==
    /\ auth.pc = "idle"
    /\ IF response.form = NoForm
       THEN auth' = [pc |-> "threw"]
       ELSE auth' = [pc |-> "posting", form |-> LogInRequest,
                     session |-> Session(parseSessionCode(response), cookies)]
    /\ UNCHANGED posted
    /\ SignInFrame

\* One run of authenticate: its POST and what it does with the response
Authenticate(response) ==
    /\ auth.pc = "posting"
    /\ Len(posted) < MaxPosts
    /\ posted' = Append(posted, [form |-> auth.form, session |-> auth.session,
                                 response |-> response])
    /\ IF ~response.terminal
       THEN IF response.form = NoForm
            THEN auth' = [pc |-> "threw"]
            ELSE auth' = [pc |-> "posting"] @@ Bypass(auth.session, response)
       ELSE IF response.query = NoQuery
            THEN auth' = [pc |-> "threw"]
            ELSE auth' = [pc |-> "done",
                          code |-> dicts(response.query, "code")]
    /\ SignInFrame

InitSignIn ==
    /\ auth = [pc |-> "idle"]
    /\ posted = <<>>
    /\ QuietAccessory
    /\ QuietGateway
    /\ QuietPoll
    /\ QuietPlatform
    /\ QuietHost

NextSignIn ==
    \/ \E response \in Pages : \E cookies \in Cookies :
           ParseSession(response, cookies)
    \/ \E response \in SignInResponses : Authenticate(response)

SpecSignIn == InitSignIn /\ [][NextSignIn]_vars

-----------------------------------------------------------------------------
(* Claims about sign-in (SpecSignIn)                                       *)

Redirects == {i \in 1 .. Len(posted) : ~posted[i].response.terminal}

\* C8: the negotiation is bounded: after two responses that are not the
\* terminal redirect, a third one ends it with an error and no further POST
C8_NegotiationBounded ==
    Cardinality(Redirects) > 2 => (auth.pc = "threw" /\ Len(posted) <= 3)

IntermediateThenTerminal ==
    /\ Len(posted) >= 2
    /\ ~posted[1].response.terminal
    /\ posted[2].response.terminal
    /\ posted[2].response.query # NoQuery

\* C9: when the first POST is answered by a page other than the terminal
\* redirect and the second by the terminal redirect, there is exactly one more
\* POST than the first; it carries the form that skips the password change,
\* the session code read from the page and the cookies of the first POST, and
\* the code returned is the code parameter of the terminal redirect
C9_OneExtraRoundTrip ==
    IntermediateThenTerminal =>
        /\ Len(posted) = 2
        /\ posted[1].form = LogInRequest
        /\ posted[2].form = PasswordUpdateRequest
        /\ posted[2].session.session = parseSessionCode(posted[1].response)
        /\ posted[2].session.cookies = posted[1].session.cookies
        /\ auth.pc = "done"
        /\ auth.code = dicts(posted[2].response.query, "code")
        /\ \/ \E i \in 1 .. Len(posted[2].response.query) :
                  posted[2].response.query[i] = Param("code", auth.code)
           \/ \A j \in 1 .. Len(posted[2].response.query) :
                  posted[2].response.query[j].key # "code"

\* The page held a session code with an HTML-encoded ampersand, other than the
\* code of the first POST, and the terminal redirect held its code after
\* another parameter
C9_Witness ==
    /\ IntermediateThenTerminal
    /\ auth.pc = "done"
    /\ posted[1].response.form = <<"s2", "&amp;", "e">>
    /\ posted[1].session.session = <<"s1">>
    /\ posted[2].session.session = <<"s2", "&", "e">>
    /\ auth.code = "B"

-----------------------------------------------------------------------------
(* The platform's poll cycle: refreshDevicesParallel                       *)
(*                                                                         *)
(* An accessory is known here by its place in the platform's list and by   *)
(* the number of its endpoints; a response is known by the request it      *)
(* answers.                                                                *)

MaxRequests == 3

Pending == [accessory |-> 0, endpoint |-> 0]

\* What the vendor answers to accessory a's request for its endpoint e
Response(a, e) == [accessory |-> a, endpoint |-> e]

RECURSIVE Queues(_, _)
\* The two nested loops: accessory by accessory, endpoint by endpoint
Queues(counts, a) ==
    IF a > Len(counts) THEN <<>>
    ELSE [e \in 1 .. counts[a] |-> Response(a, e)] \o Queues(counts, a + 1)

Unresolved == {i \in 1 .. Len(results) : results[i] = Pending}

PromiseAllAsArrived(settled, order) ==
    [i \in 1 .. Len(settled) |-> settled[order[i]]]

\* Promise.all: the values in the order of the promises it was given
PromiseAll(settled, order) ==
    [i \in 1 .. Len(settled) |-> settled[i]]

\* Array.prototype.splice(0, n): the elements removed, and what is left
splice(array, n) ==
    LET m == IF n < Len(array) THEN n ELSE Len(array)
    IN  [removed |-> SubSeq(array, 1, m),
         left |-> SubSeq(array, m + 1, Len(array))]

\* The chunk keyed by the accessory's endpoints, in their declared order
zipEndpointResponses(a, chunk) ==
    [e \in 1 .. endpoints[a] |->
        IF e <= Len(chunk) THEN chunk[e] ELSE Pending]

PollFrame == UNCHANGED <<accVars, gatewayVars, signInVars, platformVars, hostVars>>

\* refreshDevicesParallel is called while the cycle before is in progress:
\* the new cycle issues its requests, and the one before goes on beside it
\* (of it the model keeps that it is outstanding)
RefreshDevicesParallelOverlapping ==
    /\ cycle.pc \in {"waiting", "applying"}
    /\ cycle' = [IdleCycle EXCEPT !.pc = "waiting", !.after = "outstanding",
                                  !.earlier = "outstanding"]
    /\ results' = [i \in 1 .. Len(Queues(endpoints, 1)) |-> Pending]
    /\ arrival' = <<>>
    /\ responses' = <<>>
    /\ delivered' = <<>>
    /\ UNCHANGED endpoints
    /\ PollFrame

\* A cycle that a later one has overtaken comes to its end: its refreshes
\* were applied beside or after those of the later cycle
EarlierCycleApplies ==
    /\ cycle.earlier = "outstanding"
    /\ cycle' = [cycle EXCEPT !.earlier = "none"]
    /\ UNCHANGED <<endpoints, results, arrival, responses, delivered>>
    /\ PollFrame

\* The cycle starts, none before it in progress: every request of every
\* accessory is issued
RefreshDevicesParallel ==
    /\ cycle.pc \in {"idle", "done", "failed"}
    /\ cycle' = [IdleCycle EXCEPT !.pc = "waiting", !.after = cycle.pc,
                                  !.earlier = cycle.earlier]
    /\ results' = [i \in 1 .. Len(Queues(endpoints, 1)) |-> Pending]
    /\ arrival' = <<>>
    /\ responses' = <<>>
    /\ delivered' = <<>>
    /\ UNCHANGED endpoints
    /\ PollFrame

\* One request of the queue is answered
ResolveRequest(i) ==
    /\ cycle.pc = "waiting"
    /\ i \in Unresolved
    /\ results' = [results EXCEPT ![i] = Queues(endpoints, 1)[i]]
    /\ arrival' = Append(arrival, i)
    /\ UNCHANGED <<endpoints, cycle, responses, delivered>>
    /\ PollFrame

\* Mutant of RejectRequest: the rejection is taken for an answer and the
\* cycle goes on
RejectRequestSettled(i) ==
    /\ cycle.pc = "waiting"
    /\ i \in Unresolved
    /\ cycle' = [cycle EXCEPT !.failure = "request"]
    /\ results' = [results EXCEPT ![i] = Queues(endpoints, 1)[i]]
    /\ arrival' = Append(arrival, i)
    /\ UNCHANGED <<endpoints, responses, delivered>>
    /\ PollFrame

\* One request of the queue rejects: the cycle is given up and logged, and
\* what the other requests have brought or will bring is dropped
RejectRequest(i) ==
    /\ cycle.pc = "waiting"
    /\ i \in Unresolved
    /\ cycle' = [cycle EXCEPT !.pc = "failed", !.failure = "request"]
    /\ results' = <<>>
    /\ arrival' = <<>>
    /\ UNCHANGED <<endpoints, responses, delivered>>
    /\ PollFrame

\* Mutant of AwaitAll: the await returns with the first answer
AwaitFirst ==
    /\ cycle.pc = "waiting"
    /\ arrival # <<>>
    /\ responses' = PromiseAll(results, arrival)
    /\ cycle' = [cycle EXCEPT !.pc = "applying"]
    /\ results' = <<>>
    /\ arrival' = <<>>
    /\ UNCHANGED <<endpoints, delivered>>
    /\ PollFrame

\* Every request is answered: the await of Promise.all returns the array.
\* Of the order of arrival the cycle keeps only whether it differed from the
\* order of the requests
AwaitAll ==
    /\ cycle.pc = "waiting"
    /\ Unresolved = {}
    /\ responses' = PromiseAll(results, arrival)
    /\ cycle' = [cycle EXCEPT !.pc = "applying",
                              !.reordered = \E i \in 1 .. Len(arrival) :
                                               arrival[i] # i]
    /\ results' = <<>>
    /\ arrival' = <<>>
    /\ UNCHANGED <<endpoints, delivered>>
    /\ PollFrame

\* One turn of the second loop: the next accessory is refreshed with its chunk
RefreshNext ==
    /\ cycle.pc = "applying"
    /\ cycle.cursor <= Len(endpoints)
    /\ LET chunk == splice(responses, endpoints[cycle.cursor])
       IN  /\ responses' = chunk.left
           /\ delivered' = Append(delivered,
                  zipEndpointResponses(cycle.cursor, chunk.removed))
    /\ cycle' = [cycle EXCEPT !.cursor = @ + 1]
    /\ UNCHANGED <<endpoints, results, arrival>>
    /\ PollFrame

\* accessory.refresh of the accessory at the cursor throws: the catch of
\* refreshDevicesParallel logs it, and the loop is left
RefreshThrows ==
    /\ cycle.pc = "applying"
    /\ cycle.cursor <= Len(endpoints)
    /\ cycle' = [cycle EXCEPT !.pc = "failed", !.failure = "refresh"]
    /\ UNCHANGED <<endpoints, results, arrival, responses, delivered>>
    /\ PollFrame

\* The second loop has gone through the list
CycleDone ==
    /\ cycle.pc = "applying"
    /\ cycle.cursor > Len(endpoints)
    /\ cycle' = [cycle EXCEPT !.pc = "done"]
    /\ UNCHANGED <<endpoints, results, arrival, responses, delivered>>
    /\ PollFrame

\* The lists of accessories whose cycle issues at most MaxRequests requests
EndpointCounts ==
    {counts \in UNION {[1 .. k -> 0 .. MaxRequests] : k \in 1 .. MaxRequests} :
        Len(Queues(counts, 1)) <= MaxRequests}

InitPoll ==
    /\ endpoints \in EndpointCounts
    /\ cycle = IdleCycle
    /\ results = <<>>
    /\ arrival = <<>>
    /\ responses = <<>>
    /\ delivered = <<>>
    /\ QuietAccessory
    /\ QuietGateway
    /\ QuietSignIn
    /\ QuietPlatform
    /\ QuietHost

NextPoll ==
    \/ RefreshDevicesParallel
    \/ \E i \in 1 .. Len(results) : ResolveRequest(i)
    \/ \E i \in 1 .. Len(results) : RejectRequest(i)
    \/ AwaitAll
    \/ RefreshNext
    \/ RefreshThrows
    \/ CycleDone

SpecPoll == InitPoll /\ [][NextPoll]_vars

-----------------------------------------------------------------------------
(* Claims about the poll cycle (SpecPoll)                                  *)

\* The responses to accessory a's own requests, in its endpoint order
OwnResponses(a) == [e \in 1 .. endpoints[a] |-> Response(a, e)]

\* C10: whatever order the requests of a cycle are answered in, each accessory
\* is refreshed with exactly the responses to its own requests, in its endpoint
\* order; when the cycle is done every accessory has been given its chunk and
\* no response is left over, so none is given twice and none is lost
C10_ChunksByAccessory ==
    /\ \A a \in 1 .. Len(delivered) : delivered[a] = OwnResponses(a)
    /\ cycle.pc = "done" =>
           /\ Len(delivered) = Len(endpoints)
           /\ responses = <<>>

\* A has two endpoints and B one; the three responses arrived in another order
\* than that of their requests, and the cycle is done
C10_Witness ==
    /\ endpoints = <<2, 1>>
    /\ cycle.reordered
    /\ cycle.pc = "done"
    /\ delivered = <<<<Response(1, 1), Response(1, 2)>>, <<Response(2, 1)>>>>

-----------------------------------------------------------------------------
(* The air quality the accessory reports                                   *)
(*                                                                         *)
(* Densities are floats in the source; the thresholds are integers, so a   *)
(* density between two integers falls in the class of the higher one and   *)
(* the model draws integers on both sides of every threshold.              *)

\* Characteristic.AirQuality: the ordinals the host gives the classes
AirQuality ==
    [UNKNOWN |-> 0, EXCELLENT |-> 1, GOOD |-> 2, FAIR |-> 3, INFERIOR |-> 4,
     POOR |-> 5]

\* Not null, not undefined and not NaN: a number
isNotNull(value) == value \in Int

pm10Level(pm10) ==
    IF pm10 < 0 THEN AirQuality.UNKNOWN
    ELSE IF pm10 <= 10 THEN AirQuality.EXCELLENT
    ELSE IF pm10 <= 30 THEN AirQuality.GOOD
    ELSE IF pm10 <= 80 THEN AirQuality.FAIR
    ELSE IF pm10 <= 150 THEN AirQuality.INFERIOR
    ELSE AirQuality.POOR

pm25Level(pm25) ==
    IF pm25 < 0 THEN AirQuality.UNKNOWN
    ELSE IF pm25 <= 5 THEN AirQuality.EXCELLENT
    ELSE IF pm25 <= 15 THEN AirQuality.GOOD
    ELSE IF pm25 <= 35 THEN AirQuality.FAIR
    ELSE IF pm25 <= 75 THEN AirQuality.INFERIOR
    ELSE AirQuality.POOR

MathMin(levels) ==
    CHOOSE m \in {levels[i] : i \in 1 .. Len(levels)} :
        \A i \in 1 .. Len(levels) : levels[i] >= m

\* Math.max(...levels), levels not empty
MathMax(levels) ==
    CHOOSE m \in {levels[i] : i \in 1 .. Len(levels)} :
        \A i \in 1 .. Len(levels) : levels[i] <= m

getCurrentAirQuality(ci, iaq) ==
    IF ~ci.on THEN AirQuality.UNKNOWN
    ELSE LET levels ==
                 (IF isNotNull(iaq.pm10Density)
                  THEN <<pm10Level(iaq.pm10Density)>> ELSE <<>>)
                 \o (IF isNotNull(iaq.pm25Density)
                     THEN <<pm25Level(iaq.pm25Density)>> ELSE <<>>)
         IN  IF Len(levels) = 0 THEN AirQuality.UNKNOWN ELSE MathMax(levels)

\* A negative density, and densities on both sides of every threshold
Pm10Densities == {-1, 5, 10, 11, 30, 31, 80, 81, 150, 151}

Pm25Densities == {-1, 5, 6, 15, 16, 35, 40, 75, 76}

RawPm10 == {RawMissing} \cup {RawNum(n) : n \in Pm10Densities}

RawPm25 == {RawMissing, RawEmpty} \cup {RawNum(n) : n \in Pm25Densities}

\* Polls that differ in the power state and in the two densities
AirQualityPolls ==
    {Poll(ControlStatus(power, "0", RawNum(2), "AUTO_DRIVING", "WEAK"),
          iaq, NoFilterList) :
        power \in {"1", "0"},
        iaq \in {NoIAQ} \cup
                {IAQ(RawNum(40), pm25, pm10, RawNum(21), RawNum(1)) :
                    pm25 \in RawPm25, pm10 \in RawPm10}}

\* The GET handler of the AirQuality characteristic; the answer keeps what it
\* was computed from, and the payload of the poll being applied, if any
GetAirQuality ==
    /\ answer' =
           [NoAnswer EXCEPT
               !.of = "AirQuality",
               !.on = controlInfo.on,
               !.pm10 = indoorAirQuality.pm10Density,
               !.pm25 = indoorAirQuality.pm25Density,
               !.polled = (applied # <<>>),
               !.iaq = IF applied # <<>> THEN applied[1].iaq ELSE NoIAQ,
               !.trail = <<getCurrentAirQuality(controlInfo, indoorAirQuality)>>]
    /\ UNCHANGED <<accVars, gatewayVars, signInVars, pollVars, platformVars>>

\* The optional characteristics of the air-quality service
Densities == {"PM10Density", "PM2_5Density", "VOCDensity"}

Density(iaq, characteristic) ==
    CASE characteristic = "PM10Density" -> iaq.pm10Density
      [] characteristic = "PM2_5Density" -> iaq.pm25Density
      [] characteristic = "VOCDensity" -> iaq.vocDensity

\* The GET handler of PM10Density, PM2_5Density or VOCDensity, registered if
\* the value was not null at registration: it answers from the object that
\* registerAirQualityService took out of the context
GetDensity(characteristic) ==
    /\ isNotNull(Density(airQuality, characteristic))
    /\ answer' =
           [NoAnswer EXCEPT
               !.of = characteristic,
               !.polled = (applied # <<>>),
               !.iaq = IF applied # <<>> THEN applied[1].iaq ELSE NoIAQ,
               !.trail = <<Density(airQuality, characteristic)>>]
    /\ UNCHANGED <<accVars, gatewayVars, signInVars, pollVars, platformVars>>

InitAirQuality ==
    /\ ConfiguredAccessory({NoControlStatus,
                            ControlStatus("1", "0", RawNum(2), "AUTO_DRIVING", "WEAK")})
    /\ QuietGateway
    /\ QuietSignIn
    /\ QuietPoll
    /\ QuietPlatform
    /\ QuietHost

\* Polls go on until the host reads the characteristic; the run ends with
\* that read
NextAirQuality ==
    \/ answer.of = "none" /\ PollIssue
    \/ \E poll \in AirQualityPolls, connected \in BOOLEAN :
           answer.of = "none" /\ RefreshApply(poll, connected)
    \/ answer.of = "none" /\ RefreshDone
    \/ answer.of = "none" /\ GetAirQuality
    \/ \E characteristic \in Densities : answer.of = "none" /\ GetDensity(characteristic)

SpecAirQuality == InitAirQuality /\ [][NextAirQuality]_vars

-----------------------------------------------------------------------------
(* Claims about the reported air quality (SpecAirQuality)                  *)

\* The class of a density under ascending thresholds: the ordinal of the first
\* threshold the density does not exceed, the one after the last otherwise
ClassUnder(density, thresholds) ==
    1 + Cardinality({i \in 1 .. Len(thresholds) : density > thresholds[i]})

Pm10Thresholds == <<10, 30, 80, 150>>

Pm25Thresholds == <<5, 15, 35, 75>>

Worse(a, b) == IF a >= b THEN a ELSE b

\* The class of a reading, a negative one being unknown
ClassOrUnknown(density, thresholds) ==
    IF density < 0 THEN AirQuality.UNKNOWN ELSE ClassUnder(density, thresholds)

\* C11 as stated: unknown when the device is off; otherwise the worse of the
\* PM10 class and the PM2.5 class, read off the two threshold tables alone
C11_Original ==
    answer.of = "AirQuality" =>
        answer.trail[1] =
            IF ~answer.on THEN AirQuality.UNKNOWN
            ELSE Worse(ClassUnder(answer.pm10, Pm10Thresholds),
                       ClassUnder(answer.pm25, Pm25Thresholds))

\* C11: unknown when the device is off, whatever the densities; otherwise the
\* worse of the PM10 class and the PM2.5 class, where a negative density has
\* the class unknown, the lowest ordinal
C11_WorseOfTwoClasses ==
    answer.of = "AirQuality" =>
        answer.trail[1] =
            IF ~answer.on THEN AirQuality.UNKNOWN
            ELSE Worse(ClassOrUnknown(answer.pm10, Pm10Thresholds),
                       ClassOrUnknown(answer.pm25, Pm25Thresholds))

\* The device is on with PM10 = 5 and PM2.5 = 40: inferior is reported
C11_Witness ==
    /\ answer.of = "AirQuality"
    /\ answer.on
    /\ answer.pm10 = 5
    /\ answer.pm25 = 40
    /\ answer.trail = <<AirQuality.INFERIOR>>

NegativeOrAbsent(raw) == raw.kind \in {"missing", "empty"} \/ (raw.kind = "num" /\ raw.n < 0)

\* C12: with the device on, when the poll being applied gave every density
\* either negative or not at all, unknown is reported
C12_NoReadingIsUnknown ==
    (/\ answer.of = "AirQuality"
     /\ answer.on
     /\ answer.polled
     /\ ~answer.iaq.hasIAQ \/ (/\ NegativeOrAbsent(answer.iaq.dustpm10)
                               /\ NegativeOrAbsent(answer.iaq.dustpm25)))
        => answer.trail[1] = AirQuality.UNKNOWN

-----------------------------------------------------------------------------
(* The conversions between the host's percentages and the device's levels  *)
(*                                                                         *)
(* A run starts from one input and applies the conversions to it in turn:  *)
(* the trail holds the input and, after it, each result.                   *)

MaxTrail == 5

\* The percentages the host sends: the whole percents from 0 to 100 and the
\* multiples of the two steps.  On these the quotient by a unit, taken in
\* floating point, rounds as the exact quotient does
Percentages ==
    {6 * percent : percent \in 0 .. 100}
        \cup {level * ROTATION_SPEED_UNIT : level \in 0 .. 6}
        \cup {ordinal * LIGHTBULB_BRIGHTNESS_UNIT : ordinal \in 0 .. 3}

Levels == -2 .. 8

Last(trail) == trail[Len(trail)]

\* getRotationSpeedPercentage, of the level getRotationSpeed gives it
PercentageOfRotationSpeed(level) == level * ROTATION_SPEED_UNIT

ConversionFrame ==
    UNCHANGED <<accVars, gatewayVars, signInVars, pollVars, platformVars>>

\* The RotationSpeed SET handler's newRotationSpeed
DecodeRotationSpeed ==
    /\ answer.of = "RotationSpeed"
    /\ Len(answer.trail) % 2 = 1
    /\ Len(answer.trail) < MaxTrail
    /\ answer' = [answer EXCEPT !.trail =
                     Append(@, RoundDiv(Last(@), ROTATION_SPEED_UNIT))]
    /\ ConversionFrame

\* The RotationSpeed GET handler's percentage
EncodeRotationSpeed ==
    /\ answer.of = "RotationSpeed"
    /\ Len(answer.trail) % 2 = 0
    /\ Len(answer.trail) < MaxTrail
    /\ answer' = [answer EXCEPT !.trail =
                     Append(@, PercentageOfRotationSpeed(Last(@)))]
    /\ ConversionFrame

\* The Brightness SET handler's brightness
DecodeBrightness ==
    /\ answer.of = "Brightness"
    /\ Len(answer.trail) % 2 = 1
    /\ Len(answer.trail) < MaxTrail
    /\ answer' = [answer EXCEPT !.trail =
                     Append(@, RoundDiv(Last(@), LIGHTBULB_BRIGHTNESS_UNIT))]
    /\ ConversionFrame

\* The brightness percentage of a context with that brightness
EncodeBrightness ==
    /\ answer.of = "Brightness"
    /\ Len(answer.trail) % 2 = 0
    /\ Len(answer.trail) < MaxTrail
    /\ LET ci == [DefaultControlInfo EXCEPT !.brightness = Last(answer.trail)]
       IN  answer' = [answer EXCEPT !.trail =
                         Append(@, getLightbulbBrightnessPercentage(ci))]
    /\ ConversionFrame

\* createCommandFromRotationSpeed of a level
CreateCommand ==
    /\ answer.of = "level"
    /\ answer' = [answer EXCEPT
                     !.of = "command",
                     !.command = createCommandFromRotationSpeed(answer.trail[1])]
    /\ ConversionFrame

InitConversions ==
    /\ answer \in
           {[NoAnswer EXCEPT !.of = "RotationSpeed", !.trail = <<value>>] :
               value \in Percentages}
           \cup {[NoAnswer EXCEPT !.of = "Brightness", !.trail = <<value>>] :
                    value \in Percentages}
           \cup {[NoAnswer EXCEPT !.of = "level", !.trail = <<level>>] :
                    level \in Levels}
    /\ QuietAccessory
    /\ QuietGateway
    /\ QuietSignIn
    /\ QuietPoll
    /\ QuietPlatform

NextConversions ==
    \/ DecodeRotationSpeed
    \/ EncodeRotationSpeed
    \/ DecodeBrightness
    \/ EncodeBrightness
    \/ CreateCommand

SpecConversions == InitConversions /\ [][NextConversions]_vars

-----------------------------------------------------------------------------
(* Claims about the conversions (SpecConversions)                          *)

Distance(a, b) == IF a >= b THEN a - b ELSE b - a

\* C13: every percentage from 0 to 100 converts to a level in 0..6, the
\* nearest one; a level converted to its percentage and back is the same
\* level, so the percentage of the level of the percentage of a level is the
\* percentage of that level
C13_FanRoundTrip ==
    answer.of = "RotationSpeed" =>
        /\ Len(answer.trail) >= 2 =>
               /\ answer.trail[2] \in 0 .. 6
               /\ 2 * Distance(answer.trail[2] * ROTATION_SPEED_UNIT,
                               answer.trail[1]) <= ROTATION_SPEED_UNIT
        /\ Len(answer.trail) >= 3 => 6 * answer.trail[3] = answer.trail[2] * 600
        /\ Len(answer.trail) >= 4 => answer.trail[4] = answer.trail[2]
        /\ Len(answer.trail) >= 5 => answer.trail[5] = answer.trail[3]

\* 25 percent is level 2 (1.5 rounds up), whose percentage is 100/3, which is
\* level 2 again
C13_Witness ==
    /\ answer.of = "RotationSpeed"
    /\ answer.trail = <<150, 2, 200, 2, 200>>

\* C14: every brightness percentage from 0 to 100 decodes to an ordinal in
\* 0..3, and the percentage that ordinal encodes to is within 100/3 of it
C14_BrightnessRoundTrip ==
    answer.of = "Brightness" =>
        /\ Len(answer.trail) >= 2 => answer.trail[2] \in 0 .. 3
        /\ Len(answer.trail) >= 3 =>
               /\ 3 * answer.trail[3] = answer.trail[2] * 600
               /\ Distance(answer.trail[3], answer.trail[1])
                      <= LIGHTBULB_BRIGHTNESS_UNIT

\* 100 percent decodes to 3 and encodes to 100 percent; 50 percent (1.5 rounds
\* up) to 2 and 200/3 percent
C14_Witness ==
    /\ answer.of = "Brightness"
    /\ answer.trail[1] = 300
    /\ Len(answer.trail) >= 3
    /\ answer.trail[2] = 2
    /\ answer.trail[3] = 400

CommandOfLevel ==
    <<Cmd("MODE", "SILENT"), Cmd("FAN_SPEED", "WEAK"), Cmd("FAN_SPEED", "MEDIUM"),
      Cmd("FAN_SPEED", "STRONG"), Cmd("MODE", "TURBO"), Cmd("MODE", "MY_PET")>>

\* C15: level 1 gives the mode command silent, levels 2, 3, 4 the fan-speed
\* commands weak, medium, strong, level 5 the mode command turbo, level 6 the
\* mode command pet; any other level gives no command
C15_LevelToCommand ==
    answer.of = "command" =>
        answer.command =
            IF answer.trail[1] \in 1 .. 6 THEN CommandOfLevel[answer.trail[1]]
            ELSE Undefined

\* Level 5 has given the mode command turbo
C15_Witness ==
    /\ answer.of = "command"
    /\ answer.trail[1] = 5
    /\ answer.command = Cmd("MODE", "TURBO")

-----------------------------------------------------------------------------
(* Claims about rejected intents (SpecAccessory)                           *)

\* C16: an intent answered with the rejection "invalid rotation speed" is a
\* setFanPercentage whose level has no command or a setAutoMode(manual) whose
\* current fan level has no command; it made no vendor call and left the local
\* ControlInfo unchanged.  A setFanPercentage with a level outside 1..6 is
\* rejected or suppressed, and never makes a vendor call
C16_RejectedWithoutCall ==
    /\ last.status = "rejected" =>
           /\ last.calls = <<>>
           /\ last.op \in {"setFanPercentage", "setAutoMode"}
           /\ ~last.polled =>
                  /\ controlInfo = last.pre
                  /\ last.op = "setFanPercentage" =>
                         createCommandFromRotationSpeed(NewRotationSpeed) = Undefined
                  /\ last.op = "setAutoMode" =>
                         /\ last.value = 0
                         /\ createCommandFromRotationSpeed(
                                getRotationSpeed(last.pre)) = Undefined
    /\ (last.op = "setFanPercentage" /\ NewRotationSpeed \notin 1 .. 6) =>
           /\ last.calls = <<>>
           /\ last.status \in {"rejected", "success"}

\* setFanPercentage(0) on a device that is off and reports a fan level has
\* been rejected
C16_Witness ==
    /\ Fresh("setFanPercentage")
    /\ last.status = "rejected"
    /\ last.value = 0
    /\ ~last.pre.on
    /\ getRotationSpeed(last.pre) # 0
    /\ controlInfo = last.pre

-----------------------------------------------------------------------------
(* The platform's launch: sign-in, enumeration, first poll, timer          *)
(*                                                                         *)
(* An accessory of the registry is known by the id derived from its        *)
(* device's barcode, with its configured mark and whether the host has it  *)
(* registered.  A listed device is known by that id, by how adding it      *)
(* goes (its type has an accessory class or not, its configure completes   *)
(* or throws) and by its netStatus.                                        *)

MaxDevices == 2

Accessory(id, configured, registered) ==
    [id |-> id, configured |-> configured, registered |-> registered]

Device(id, kind, netStatus) == [id |-> id, kind |-> kind, netStatus |-> netStatus]

DeviceKinds == {"ok", "unregistered type", "throws"}

\* The devices of a listing, as the listing reports them
Devices ==
    {Device(id, kind, "offline") : id \in 1 .. MaxDevices, kind \in DeviceKinds}

DeviceLists == UNION {[1 .. n -> Devices] : n \in 0 .. MaxDevices}

\* What executeIoCareGetPayload(GET_USER_DEVICES) leaves in response: nothing
\* (the call failed without a response), a body without data, data without
\* deviceInfos (a vendor error body among them), or a device list
ListResponse(kind, deviceInfos) == [kind |-> kind, deviceInfos |-> deviceInfos]

ListResponses ==
    {ListResponse(kind, <<>>) :
        kind \in {"no response", "no data", "no deviceInfos", "vendor error"}}
        \cup {ListResponse("list", list) : list \in DeviceLists}

\* !response?.data?.deviceInfos
NoDeviceInfos(response) == response.kind # "list"

\* configureAccessory: an accessory restored from the cache, not configured yet
Cached(id) == Accessory(id, FALSE, TRUE)

CachedRegistries == {<<>>, <<Cached(1)>>, <<Cached(1), Cached(2)>>}

\* Mutant of addAccessory: a new accessory for every listed device
addAccessoryAnew(registry, device) ==
    IF device.kind = "unregistered type" THEN registry
    ELSE Append(registry,
                Accessory(device.id, device.kind = "ok", device.kind = "ok"))

\* addAccessory: what the registry is after it, whether it threw or not
addAccessory(registry, device) ==
    IF \A i \in 1 .. Len(registry) : registry[i].id # device.id
    THEN CASE device.kind = "unregistered type" -> registry
           [] device.kind = "throws" ->
                  Append(registry, Accessory(device.id, FALSE, FALSE))
           [] OTHER -> Append(registry, Accessory(device.id, TRUE, TRUE))
    ELSE [i \in 1 .. Len(registry) |->
             IF registry[i].id = device.id /\ device.kind # "throws"
             THEN [registry[i] EXCEPT !.configured = TRUE]
             ELSE registry[i]]

IsConfigured(accessory) == accessory.configured

\* accessory.getEndpoints().length: here one request stands for the endpoints
\* of an accessory; the chunks of several endpoints are SpecPoll's
EndpointsOf(accessory) == 1

\* Mutant of WithoutUnconfigured: nothing is removed
WithUnconfigured(registry) == registry

\* The registry without the accessories that never got configured
WithoutUnconfigured(registry) == SelectSeq(registry, IsConfigured)

Registered(registry) ==
    Cardinality({i \in 1 .. Len(registry) : registry[i].registered})

\* GET_DEVICE_CONNECTIONS has not been called
NoConnections == [kind |-> "none", data |-> <<>>]

Constructed(cached) ==
    [pc |-> "constructed", signIn |-> "none", listed |-> "none",
     success |-> FALSE, cached |-> cached, registry |-> cached,
     devices |-> <<>>, cursor |-> 1,
     asked |-> <<>>, connections |-> NoConnections,
     added |-> 0, removed |-> 0, timer |-> FALSE, timers |-> 0,
     caught |-> FALSE, exited |-> FALSE]

ContinueAfterLaunchError(p) ==
    [p EXCEPT !.pc = "enumerating", !.signIn = "threw", !.caught = TRUE]

\* The catch of the launch handler: the error is logged, the handler ends
CatchLaunchError(p) ==
    [p EXCEPT !.pc = "launched", !.signIn = "threw", !.caught = TRUE]

\* Homebridge has finished launching: the handler calls signIn
DidFinishLaunching ==
    /\ platform.pc = "constructed"
    /\ platform' = [platform EXCEPT !.pc = "signingIn"]
    /\ UNCHANGED <<accVars, gatewayVars, signInVars, pollVars, hostVars>>

\* signIn's parseSession and authenticate, while the handler awaits signIn
LaunchParseSession(response, cookies) ==
    /\ platform.pc = "signingIn"
    /\ ParseSession(response, cookies)

LaunchAuthenticate(response) ==
    /\ platform.pc = "signingIn"
    /\ Authenticate(response)

\* signIn's session negotiation threw: the handler catches
SignInThrew ==
    /\ platform.pc = "signingIn"
    /\ auth.pc = "threw"
    /\ platform' = CatchLaunchError(platform)
    /\ UNCHANGED <<accVars, gatewayVars, signInVars, pollVars, hostVars>>

\* getAccessTokens: the exchange of the code; the tokens are read out of the
\* body's data without a look at the outcome, and a body without data throws
GetAccessTokens(body) ==
    /\ platform.pc = "signingIn"
    /\ auth.pc = "done"
    /\ IF body.hasData
       THEN /\ accessToken' = TokenPair(body.accessToken, body.refreshToken)
            /\ platform' = [platform EXCEPT !.pc = "enumerating",
                                            !.signIn = "returned"]
       ELSE /\ platform' = CatchLaunchError(platform)
            /\ UNCHANGED accessToken
    /\ UNCHANGED <<now, call, issued>>
    /\ UNCHANGED <<accVars, signInVars, pollVars, hostVars>>

UnavailableDropsCache(p, kind) ==
    [p EXCEPT !.pc = "launched", !.listed = kind, !.success = FALSE,
              !.registry = WithoutUnconfigured(@),
              !.removed = Len(p.registry) - Len(WithoutUnconfigured(p.registry))]

\* configureCowayDevices returns false; the handler warns and ends
Unavailable(p, kind) ==
    [p EXCEPT !.pc = "launched", !.listed = kind, !.success = FALSE]

\* What the answer to GET_DEVICE_CONNECTIONS is to checkAndRefreshDevicesOnline:
\* the call threw, the response has no data, or data holds one entry per
\* device the vendor reports on
Connection(devId, netStatus) == [devId |-> devId, netStatus |-> netStatus]

ConnectionsResponse(kind, data) == [kind |-> kind, data |-> data]

RECURSIVE MergeConnections(_, _, _)
\* The loop over response.data: the devices whose barcode is the entry's
\* devId take the entry's netStatus
MergeConnections(devices, data, k) ==
    IF k > Len(data) THEN devices
    ELSE MergeConnections(
             [i \in 1 .. Len(devices) |->
                 IF devices[i].id = data[k].devId
                 THEN [devices[i] EXCEPT !.netStatus = data[k].netStatus]
                 ELSE devices[i]],
             data, k + 1)

\* Mutant of checkAndRefreshDevicesOnline: devices without an entry go offline
checkAndMarkMissingOffline(devices, response) ==
    IF response.kind # "data" THEN devices
    ELSE MergeConnections(
             [i \in 1 .. Len(devices) |-> [devices[i] EXCEPT !.netStatus = "offline"]],
             response.data, 1)

\* checkAndRefreshDevicesOnline: the devices array after it
checkAndRefreshDevicesOnline(devices, response) ==
    IF response.kind # "data" THEN devices
    ELSE MergeConnections(devices, response.data, 1)

\* The answers the launch draws from: no data, or every device online
LaunchConnections ==
    {ConnectionsResponse("no data", <<>>),
     ConnectionsResponse("data",
         [id \in 1 .. MaxDevices |-> Connection(id, "online")])}

\* configureCowayDevices, up to the device list: without one it returns false
ConfigureCowayDevices(response) ==
    /\ platform.pc = "enumerating"
    /\ IF NoDeviceInfos(response) \/ Len(response.deviceInfos) = 0
       THEN platform' =
                Unavailable(platform,
                            IF NoDeviceInfos(response) THEN response.kind
                            ELSE "empty list")
       ELSE platform' = [platform EXCEPT !.pc = "checking",
                                         !.listed = response.kind,
                                         !.devices = response.deviceInfos]
    /\ UNCHANGED <<accVars, gatewayVars, signInVars, pollVars, hostVars>>

\* devIds of the call: the barcodes of all the devices, joined
DevIds(devices) == [i \in 1 .. Len(devices) |-> devices[i].id]

\* await this.checkAndRefreshDevicesOnline(devices): the one call, with its
\* answer, and the merge
CheckAndRefreshDevicesOnline(response) ==
    /\ platform.pc = "checking"
    /\ platform' = [platform EXCEPT
                       !.pc = "adding",
                       !.cursor = 1,
                       !.asked = Append(@, DevIds(platform.devices)),
                       !.connections = response,
                       !.devices = checkAndRefreshDevicesOnline(@, response)]
    /\ UNCHANGED <<accVars, gatewayVars, signInVars, pollVars, hostVars>>

\* One turn of the loop over the devices: addAccessory in its try
AddAccessory ==
    /\ platform.pc = "adding"
    /\ platform.cursor <= Len(platform.devices)
    /\ LET registry == addAccessory(platform.registry,
                                    platform.devices[platform.cursor])
       IN  platform' = [platform EXCEPT
                           !.cursor = @ + 1,
                           !.registry = registry,
                           !.added = @ + Registered(registry)
                                       - Registered(platform.registry)]
    /\ UNCHANGED <<accVars, gatewayVars, signInVars, pollVars, hostVars>>

\* The loop is through: the accessories that never got configured are removed
\* and unregistered, and configureCowayDevices returns true
RemoveUnconfigured ==
    /\ platform.pc = "adding"
    /\ platform.cursor > Len(platform.devices)
    /\ LET kept == WithoutUnconfigured(platform.registry)
       IN  /\ platform' = [platform EXCEPT
                              !.pc = "polling",
                              !.success = TRUE,
                              !.devices = <<>>,
                              !.cursor = 1,
                              !.asked = <<>>,
                              !.connections = NoConnections,
                              !.registry = kept,
                              !.removed = Len(platform.registry) - Len(kept)]
           /\ endpoints' = [i \in 1 .. Len(kept) |-> EndpointsOf(kept[i])]
    /\ UNCHANGED <<cycle, results, arrival, responses, delivered>>
    /\ UNCHANGED <<accVars, gatewayVars, signInVars, hostVars>>

\* The first poll cycle, awaited by the handler
InitialPoll ==
    /\ platform.pc = "polling"
    /\ cycle.pc = "idle"
    /\ RefreshDevicesParallel

\* Mutant of EnqueueDeviceRefreshInterval: the first cycle is not awaited
EnqueueWithoutAwait ==
    /\ platform.pc = "polling"
    /\ platform' = [platform EXCEPT !.pc = "launched", !.timer = TRUE,
                                    !.timers = @ + 1]
    /\ UNCHANGED <<accVars, gatewayVars, signInVars, pollVars, hostVars>>

\* enqueueDeviceRefreshInterval, once the first cycle has returned
EnqueueDeviceRefreshInterval ==
    /\ platform.pc = "polling"
    /\ cycle.pc \in {"done", "failed"}
    /\ platform' = [platform EXCEPT !.pc = "launched", !.timer = TRUE,
                                    !.timers = @ + 1]
    /\ UNCHANGED <<accVars, gatewayVars, signInVars, pollVars, hostVars>>

TimerRunsUntilFailure == platform.timer /\ cycle.pc # "failed"

\* The interval set by enqueueDeviceRefreshInterval is never cleared
TimerRuns == platform.timer

\* The interval fires: its callback calls refreshDevicesParallel in a try
TimerTick ==
    /\ platform.pc = "launched"
    /\ TimerRuns
    /\ RefreshDevicesParallel

\* The interval fires while the cycle of an earlier firing is in progress:
\* setInterval does not wait for the callback before it
TimerTickOverlapping ==
    /\ platform.pc = "launched"
    /\ TimerRuns
    /\ RefreshDevicesParallelOverlapping

LaunchPages == {Page(<<"s1">>), Page(NoForm)}

LaunchResponses ==
    LaunchPages \cup {RedirectBridge(<<Param("code", "A")>>), RedirectBridge(NoQuery)}

\* The answers of the token endpoint to the exchange of the code
TokenBodies ==
    {RefreshedBody(1, MaxTime + 1)} \cup {ErrorBody(hasData) : hasData \in BOOLEAN}

InitPlatform ==
    /\ platform \in {Constructed(cached) : cached \in CachedRegistries}
    /\ QuietAccessory
    /\ QuietGateway
    /\ QuietSignIn
    /\ QuietPoll
    /\ QuietHost

NextPlatform ==
    \/ DidFinishLaunching
    \/ \E response \in LaunchPages : LaunchParseSession(response, "c1")
    \/ \E response \in LaunchResponses : LaunchAuthenticate(response)
    \/ SignInThrew
    \/ \E body \in TokenBodies : GetAccessTokens(body)
    \/ \E response \in ListResponses : ConfigureCowayDevices(response)
    \/ \E response \in LaunchConnections : CheckAndRefreshDevicesOnline(response)
    \/ AddAccessory
    \/ RemoveUnconfigured
    \/ InitialPoll
    \/ \E i \in 1 .. Len(results) : ResolveRequest(i)
    \/ \E i \in 1 .. Len(results) : RejectRequest(i)
    \/ AwaitAll
    \/ RefreshNext
    \/ RefreshThrows
    \/ CycleDone
    \/ EnqueueDeviceRefreshInterval
    \/ TimerTick
    \/ TimerTickOverlapping
    \/ EarlierCycleApplies

SpecPlatform == InitPlatform /\ [][NextPlatform]_vars

(***************************************************************************)
(* The connectivity check on its own: any devices with any netStatus, and  *)
(* any answer with at most one entry per devId, devIds that belong to no   *)
(* device among them.                                                      *)
(***************************************************************************)
NetStatuses == {"online", "offline"}

ListedDevices ==
    UNION {[1 .. n -> {Device(id, "ok", netStatus) :
                          id \in 1 .. MaxDevices, netStatus \in NetStatuses}] :
           n \in 1 .. MaxDevices}

ConnectionLists ==
    {data \in UNION {[1 .. n -> {Connection(devId, netStatus) :
                                    devId \in 1 .. MaxDevices + 1,
                                    netStatus \in NetStatuses}] :
                     n \in 0 .. MaxDevices} :
        \A i, j \in 1 .. Len(data) : data[i].devId = data[j].devId => i = j}

ConnectionsResponses ==
    {ConnectionsResponse("threw", <<>>), ConnectionsResponse("no data", <<>>)}
        \cup {ConnectionsResponse("data", data) : data \in ConnectionLists}

InitConnectivity ==
    /\ platform \in {[Constructed(<<>>) EXCEPT !.pc = "checking",
                                               !.signIn = "returned",
                                               !.listed = "list",
                                               !.devices = devices] :
                        devices \in ListedDevices}
    /\ QuietAccessory
    /\ QuietGateway
    /\ QuietSignIn
    /\ QuietPoll
    /\ QuietHost

NextConnectivity ==
    \E response \in ConnectionsResponses : CheckAndRefreshDevicesOnline(response)

SpecConnectivity == InitConnectivity /\ [][NextConnectivity]_vars

\* The host's timer fires again and again
SpecTimer == SpecPlatform /\ WF_vars(TimerTick)

\* What the registry and the host hold is what the cache restored
NothingAddedOrRemoved ==
    /\ platform.registry = platform.cached
    /\ platform.added = 0
    /\ platform.removed = 0

NoPollRan ==
    /\ cycle = IdleCycle
    /\ results = <<>>
    /\ delivered = <<>>

\* C17: when sign-in throws, in the session negotiation or in the exchange of
\* the code, the launch handler catches the error and ends: the devices are
\* not listed, no accessory is added or removed, no poll cycle runs, the
\* timer is not started and the process is not terminated.
C17_SignInErrorAbsorbed ==
    platform.signIn = "threw" =>
        /\ platform.pc = "launched"
        /\ platform.caught
        /\ platform.listed = "none"
        /\ NothingAddedOrRemoved
        /\ NoPollRan
        /\ ~platform.timer
        /\ ~platform.exited

\* The exchange of the code threw with two accessories restored from the cache
C17_Witness ==
    /\ platform.signIn = "threw"
    /\ auth.pc = "done"
    /\ Len(platform.cached) = 2

\* C19: when the answer to the listing of the devices holds no device list,
\* configureCowayDevices does not throw and returns false, no accessory is
\* added, and no cached accessory is removed or unregistered.
C19_NoDeviceListIsRecoverable ==
    platform.listed \in {"no response", "no data", "no deviceInfos", "vendor error"} =>
        /\ platform.pc = "launched"
        /\ ~platform.success
        /\ ~platform.caught
        /\ NothingAddedOrRemoved
        /\ ~platform.exited

\* A vendor error body answered the listing with two accessories in the cache
C19_Witness ==
    /\ platform.listed = "vendor error"
    /\ Len(platform.cached) = 2
    /\ platform.signIn = "returned"

\* C18: once the timer is started it is never stopped, and after a cycle that
\* failed the next cycle starts at the next tick, however many cycles failed
\* before it.
C18_TimerSurvivesFailure ==
    /\ [][platform.timer => platform.timer']_vars
    /\ (platform.timer /\ cycle.pc = "failed")
           ~> (cycle.pc = "waiting" /\ cycle.after = "failed")

\* A cycle started by the timer after a failed cycle has failed as well
C18_Witness ==
    /\ platform.timer
    /\ cycle.pc = "failed"
    /\ cycle.after = "failed"

-----------------------------------------------------------------------------
(* Claims about the local state of an accessory (SpecAccessory)            *)

\* C21: in every reachable state of the accessory, after any polls and
\* intents, a fan level of SHUTDOWN implies that the purifier is off
C21_ShutdownImpliesOff ==
    controlInfo.fanSpeed = "SHUTDOWN" => ~controlInfo.on

\* The numeric fields of the poll being pushed to the host, each raw vendor
\* value with the value the accessory holds for it
NumericFields ==
    LET poll == applied[1] IN
    {<<poll.control.brightness, controlInfo.brightness>>,
     <<poll.iaq.humidity, indoorAirQuality.humidity>>,
     <<poll.iaq.dustpm10, indoorAirQuality.pm10Density>>,
     <<poll.iaq.dustpm25, indoorAirQuality.pm25Density>>,
     <<poll.iaq.vocs, indoorAirQuality.vocDensity>>,
     <<poll.iaq.temperature, indoorAirQuality.temperature>>}
        \cup {<<poll.filter.filterList[i].filterPer, filterInfos[i].filterPercentage>> :
                 i \in 1 .. Len(filterInfos)}

\* The numbers the accessory holds
Numbers ==
    {controlInfo.brightness, indoorAirQuality.humidity, indoorAirQuality.pm10Density,
     indoorAirQuality.pm25Density, indoorAirQuality.vocDensity,
     indoorAirQuality.temperature}
        \cup {filterInfos[i].filterPercentage : i \in 1 .. Len(filterInfos)}

\* A poll has just been applied and no intent has touched the state since
JustPolled == pollPhase = "refreshing" /\ last.polled

\* A raw value that is no number: absent, empty, or text that is not the
\* decimal writing of a number ("abc", "12abc")
NonNumeric(str) == str.kind \in {"missing", "empty", "text", "prefixed"}

\* A raw value that does not begin with a number
NoLeadingNumber(str) == str.kind \in {"missing", "empty", "text"}

\* C22 as stated: no numeric field of the accessory is ever NaN, and after a
\* poll a raw value that is empty, missing or non-numeric is held as 0
C22_Original ==
    /\ \A number \in Numbers : number # NaN
    /\ JustPolled =>
           \A field \in NumericFields : NonNumeric(field[1]) => field[2] = 0

\* C22: no numeric field of the accessory is ever NaN, and after a poll a raw
\* value that is empty, missing or does not begin with a number is held as 0
\* (text that begins with a number is held as that number)
C22_NeverNaN ==
    /\ \A number \in Numbers : number # NaN
    /\ JustPolled =>
           \A field \in NumericFields :
               /\ NoLeadingNumber(field[1]) => field[2] = 0
               /\ ~NoLeadingNumber(field[1]) => field[2] = field[1].n

\* A poll with an empty, a missing, a textual and a numeric value was applied
C22_Witness ==
    /\ JustPolled
    /\ \A kind \in {"missing", "empty", "text"} :
           \E field \in NumericFields : field[1].kind = kind /\ field[2] = 0
    /\ \E field \in NumericFields : field[1].kind = "num" /\ field[2] = field[1].n

\* The vendor call of the latest intent did not go through, and no poll has
\* been applied since
FailedAndNotPolled(intent) ==
    intent.outcome \in {"vendor error", "failed"} /\ ~intent.polled

\* C30: when the vendor call of an accepted intent fails or is rejected by the
\* vendor, the intent reports success to the host and the local state is not
\* rolled back: it keeps the value the handler gave it until a poll is applied
\* (or the host issues another intent)
C30_NoRollback ==
    [][FailedAndNotPolled(last') =>
          /\ last'.status = "success"
          /\ last'.calls # <<>>
          /\ controlInfo' = controlInfo]_vars

\* setPower(on) on a purifier that was off: the call failed, the host was told
\* success and the purifier is still locally on
C30_Witness ==
    /\ FailedAndNotPolled(last)
    /\ last.op = "setPower"
    /\ ~last.pre.on
    /\ controlInfo.on
    /\ last.status = "success"

-----------------------------------------------------------------------------
(* Claims about the concurrency of the poll cycle (SpecPoll)               *)

\* C24: in a cycle every request of every accessory is issued before any
\* response is applied; no refresh runs until all the requests have been
\* answered; and no request waits for the answer to another one
C24_AllIssuedThenApplied ==
    /\ cycle.pc = "waiting" =>
           /\ Len(results) = Len(Queues(endpoints, 1))
           /\ delivered = <<>>
           /\ \A i \in Unresolved : ENABLED ResolveRequest(i)
    /\ delivered # <<>> =>
           (cycle.pc \in {"applying", "done"} \/ cycle.failure = "refresh")
    /\ \A a \in 1 .. Len(delivered) : \A e \in 1 .. Len(delivered[a]) :
           delivered[a][e] # Pending

\* Three requests of two accessories are out; the last one was answered first
\* and nothing has been applied
C24_Witness ==
    /\ cycle.pc = "waiting"
    /\ Len(endpoints) = 2
    /\ Len(results) = 3
    /\ arrival = <<3>>
    /\ delivered = <<>>

-----------------------------------------------------------------------------
(* Claims about nested and concurrent refreshes (SpecGateway)              *)

\* C26: the refresh call makes no expiry check although the token it carries
\* is expired, so a call of the gateway makes one refresh call when its token
\* is expired, none otherwise, and never more than one
C26_AtMostOneRefresh ==
    \A c \in Callers :
        /\ call[c].refreshCalls <= 1
        /\ call[c].pc # "idle" =>
               (call[c].refreshCalls = 1) = call[c].expired

\* A call's refresh call is out, carrying the expired token
C26_Witness ==
    \E c \in Callers :
        /\ call[c].pc = "refreshing"
        /\ call[c].refreshCalls = 1
        /\ isExpired(call[c].held.accessToken, now)

\* C27: the refreshes of concurrent calls exclude one another in no way: each
\* call that found the shared token expired makes its own refresh call with
\* the refresh token it found, each refresh answer that carries a pair
\* overwrites the shared pair, and nothing else changes it, so that the pair
\* left is the one of the answer applied last
C27_LastRefreshWins ==
    [][/\ \A c \in Callers :
              (call[c].pc = "refreshing" /\ call'[c].pc # "refreshing"
                  /\ call'[c].refreshBody.hasData) =>
                  accessToken' = TokenPair(call'[c].refreshBody.accessToken,
                                           call'[c].refreshBody.refreshToken)
       /\ accessToken' # accessToken =>
              \E c \in Callers :
                  call[c].pc = "refreshing" /\ call'[c].pc # "refreshing"]_vars

\* Every caller made its own refresh call with the same old refresh token; all
\* have returned, and the shared pair is the one issued last
C27_Witness ==
    /\ \A c \in Callers :
           /\ call[c].pc = "returned"
           /\ call[c].refreshCalls = 1
           /\ call[c].held = TokenPair(Jwt(1, 0), 1)
           /\ call[c].refreshBody.status = "ok"
    /\ \A c, d \in Callers :
           c # d => call[c].refreshBody.refreshToken # call[d].refreshBody.refreshToken
    /\ accessToken.refreshToken = issued
    /\ issued = 1 + MaxCallers

\* The accessories of the registry that carry the id
WithId(registry, id) == {i \in 1 .. Len(registry) : registry[i].id = id}

\* C23: at every point during and after the configuration of the devices the
\* registry holds at most one accessory per id; a device whose id is already
\* there, restored from the cache or added earlier in the enumeration,
\* reconfigures the accessory that is there and adds none
C23_OneAccessoryPerId ==
    \A id \in 1 .. MaxDevices : Cardinality(WithId(platform.registry, id)) <= 1

\* The cache restored the accessory of device 1, the list named device 1
\* twice, both were added, and the registry holds the one accessory, configured
C23_Witness ==
    /\ platform.pc = "adding"
    /\ platform.cursor = 3
    /\ platform.cached = <<Cached(1)>>
    /\ platform.devices[1].id = 1
    /\ platform.devices[2].id = 1
    /\ platform.registry = <<Accessory(1, TRUE, TRUE)>>

\* A poll cycle has returned
CycleReturned ==
    \/ cycle.pc \in {"done", "failed"}
    \/ cycle.after # "idle"

\* C25: the launch goes in one order and starts at most one timer: the
\* devices are listed only once signIn has returned, the first poll cycle
\* starts only once the enumeration has succeeded, the timer is started only
\* once that cycle has returned; it is started at most once, and never when
\* the enumeration reports failure
C25_LaunchOrder ==
    /\ platform.pc \in {"constructed", "signingIn"} =>
           /\ platform.listed = "none"
           /\ cycle.pc = "idle"
           /\ ~platform.timer
    /\ platform.pc \in {"enumerating", "checking", "adding"} =>
           /\ platform.signIn = "returned"
           /\ ~platform.success
           /\ cycle.pc = "idle"
           /\ ~platform.timer
    /\ platform.pc = "polling" =>
           /\ platform.signIn = "returned"
           /\ platform.success
           /\ ~platform.timer
    /\ platform.timer =>
           /\ platform.pc = "launched"
           /\ platform.signIn = "returned"
           /\ platform.success
           /\ CycleReturned
    /\ platform.timers = (IF platform.timer THEN 1 ELSE 0)
    /\ (platform.pc = "launched" /\ ~platform.success) =>
           /\ ~platform.timer
           /\ cycle.pc = "idle"

\* The timer has just been started, after the first cycle of a registry of
\* one accessory came to its end
C25_Witness ==
    /\ platform.timer
    /\ platform.timers = 1
    /\ platform.pc = "launched"
    /\ cycle.pc = "done"
    /\ cycle.after = "idle"
    /\ Len(platform.registry) = 1

\* The entries of the answer that name the device
EntriesFor(response, device) ==
    IF response.kind # "data" THEN {}
    ELSE {k \in 1 .. Len(response.data) : response.data[k].devId = device.id}

\* C28: the connectivity check makes one call that carries the barcodes of
\* all devices; after it every device named by an entry of the answer has
\* that entry's netStatus, every device the answer does not name keeps its
\* netStatus, no other field of a device changes, and an answer without
\* data or a thrown error leaves every device as it was
C28_MergeByBarcode ==
    [][platform.pc = "checking" /\ platform'.pc # "checking" =>
           LET before == platform.devices
               after == platform'.devices
               response == platform'.connections
           IN  /\ platform'.asked = <<DevIds(before)>>
               /\ Len(after) = Len(before)
               /\ \A i \in 1 .. Len(before) :
                      /\ [after[i] EXCEPT !.netStatus = before[i].netStatus]
                             = before[i]
                      /\ \A k \in EntriesFor(response, before[i]) :
                             after[i].netStatus = response.data[k].netStatus
                      /\ EntriesFor(response, before[i]) = {} =>
                             after[i] = before[i]
               /\ response.kind \in {"threw", "no data"} => after = before]_vars

\* The answer names device 1 and a device that is not listed: device 1 went
\* offline as the entry says, device 2 is online as before
C28_Witness ==
    /\ platform.pc = "adding"
    /\ platform.asked = <<(<<1, 2>>)>>
    /\ platform.connections =
           ConnectionsResponse("data", <<Connection(MaxDevices + 1, "offline"),
                                         Connection(1, "offline")>>)
    /\ platform.devices = <<Device(1, "ok", "offline"), Device(2, "ok", "online")>>

\* C29: when configure has completed, the accessory's controlInfo, telemetry
\* and filterInfos are the ones produced from the one poll configure made,
\* whether or not the device is reported as connected
C29_StateFromConfigurePoll ==
    pollPhase = "configured" =>
        /\ Len(applied) = 1
        /\ controlInfo = getControlInfo(applied[1].control)
        /\ indoorAirQuality = getIndoorAirQuality(applied[1].iaq)
        /\ filterInfos = getFilterInfos(applied[1].filter)

\* getPurifierDrivingStrategy: TargetAirPurifierState AUTO is 1, MANUAL is 0
getPurifierDrivingStrategy(ci) == IF ci.mode = "AUTO_DRIVING" THEN 1 ELSE 0

\* C31: after setAutoMode(manual) was accepted on a device that was on and in
\* auto mode, whatever its fan level, the local mode is no longer auto and the
\* target state reads manual, until a poll is applied
C31_ManualAfterAccepted ==
    (/\ Fresh("setAutoMode")
     /\ last.value = 0
     /\ last.status = "success"
     /\ last.calls # <<>>
     /\ last.pre.on
     /\ last.pre.mode = "AUTO_DRIVING") =>
        /\ controlInfo.mode # "AUTO_DRIVING"
        /\ getPurifierDrivingStrategy(controlInfo) = 0

\* C32: a host read of PM10 density, PM2.5 density or VOC density made after
\* a poll was applied to the connected accessory returns the value of that
\* poll, not the value the air-quality service held when it was registered
C32_DensityOfLatestPoll ==
    (answer.of \in Densities /\ answer.polled) =>
        /\ answer.trail[1] = Density(indoorAirQuality, answer.of)
        /\ answer.trail[1] = Density(getIndoorAirQuality(answer.iaq), answer.of)

\* C33: a cycle in which a request rejected has updated no accessory, those
\* whose own requests were answered among them; a cycle in which the refresh
\* of accessory i threw has updated the accessories before i and none after
C33_AllOrNothing ==
    /\ cycle.failure = "request" =>
           /\ cycle.pc = "failed"
           /\ delivered = <<>>
    /\ cycle.failure = "refresh" =>
           /\ cycle.pc = "failed"
           /\ Len(delivered) = cycle.cursor - 1
           /\ cycle.cursor <= Len(endpoints)
    /\ cycle.pc = "failed" => cycle.failure # "none"

\* A request rejected in a cycle of two accessories with requests of their
\* own, and neither accessory was refreshed
C33_Witness ==
    /\ cycle.pc = "failed"
    /\ cycle.failure = "request"
    /\ Len(endpoints) = 2
    /\ endpoints[1] >= 1
    /\ endpoints[2] >= 1
    /\ delivered = <<>>

\* C34: at most one poll cycle is in progress at any time: no tick of the
\* timer starts a cycle while the requests or refreshes of the cycle before
\* are outstanding, so that no cycle applies its responses after a later one
C34_OneCycleAtATime == cycle.earlier = "none"

\* C35: when the cycle's refresh reaches an accessory that is not connected,
\* its controlInfo, telemetry and filterInfos stay exactly as they were, and
\* no value is pushed to the host
C35_UnconnectedUntouched ==
    [][(pollPhase = "inflight" /\ pollPhase' # "inflight" /\ ~isConnected') =>
           /\ controlInfo' = controlInfo
           /\ indoorAirQuality' = indoorAirQuality
           /\ filterInfos' = filterInfos
           /\ pollPhase' = "idle"
           /\ applied' = <<>>
           /\ characteristicRefreshing' = characteristicRefreshing
           /\ last' = last]_vars

\* The device was found not connected; the power the host has set, which no
\* poll confirmed, is still the local state
C35_Witness ==
    /\ ~isConnected
    /\ pollPhase = "idle"
    /\ applied = <<>>
    /\ last.op = "setPower"
    /\ ~last.polled
    /\ controlInfo.on
    /\ controlInfo # DefaultControlInfo

\* The enumeration configured the accessory of the id: a listed device of
\* that id went through addAccessory without a throw
ConfiguredInEnumeration(devices, id) ==
    \E j \in 1 .. Len(devices) : devices[j].id = id /\ devices[j].kind # "throws"

C37_PowerOffTurnsLightOff ==
    (Fresh("setPower") /\ last.value = 0 /\ last.pre.on) =>
        /\ ~controlInfo.on
        /\ ~controlInfo.lightOn
        /\ controlInfo.brightness = 0
        /\ last.calls = << <<PowerOff>> >>

\* The device was on with its light on at brightness 2 when the host turned
\* the power off, and the call has gone through
C37_Witness ==
    /\ Fresh("setPower")
    /\ last.value = 0
    /\ last.pre.on
    /\ last.pre.lightOn
    /\ last.pre.brightness = 2
    /\ last.status = "success"
    /\ last.outcome = "ok"
    /\ last.calls = << <<PowerOff>> >>

\* C38: setLightBrightness with a percentage that decodes to level 0, the
\* stored brightness not being 0, leaves brightness 0 and the light off
\* locally and sends exactly one command, light=off: no brightness command
\* and no power=on, whether the device is on or off
C38_BrightnessZeroIsLightOff ==
    (/\ Fresh("setLightBrightness")
     /\ RoundDiv(last.value, LIGHTBULB_BRIGHTNESS_UNIT) = 0
     /\ last.pre.brightness # 0) =>
        /\ controlInfo.brightness = 0
        /\ ~controlInfo.lightOn
        /\ controlInfo.on = last.pre.on
        /\ last.calls = << <<LightOffCmd>> >>

\* The device was off with a stored brightness of 2; the host wrote 16 %,
\* which decodes to level 0, and the one call has gone through
C38_Witness ==
    /\ Fresh("setLightBrightness")
    /\ last.value = 6 * 16
    /\ ~last.pre.on
    /\ last.pre.brightness = 2
    /\ last.status = "success"
    /\ last.calls = << <<LightOffCmd>> >>
    /\ controlInfo.brightness = 0

====
